---------------------------- MODULE Spec2Model ----------------------------
(***************************************************************************)
(* BoombaBox (src/BoombaBox.py): the non-visual state of MusicPlayer -     *)
(* catalog, view, playback sequencing, queue, favorites, playlists and the *)
(* two JSON files - as a state machine.  One action per Qt slot / handler. *)
(***************************************************************************)
EXTENDS Integers, Sequences, FiniteSets, TLC

(***************************************************************************)
(* Bounds of the model.                                                    *)
(***************************************************************************)
\* number of audio files that can exist under MUSIC_DIR
NumSongs == 3
\* plays followed per scan of the library (the play counters are unbounded)
MaxPlays == 3

(***************************************************************************)
(* Sequence helpers.                                                       *)
(***************************************************************************)
Range(s) == { s[i] : i \in 1..Len(s) }

NoDup(s) == \A i, j \in 1..Len(s) : s[i] = s[j] => i = j

\* list.index(x): 0-based position of the first element equal to x
IndexOf(s, x) == (CHOOSE i \in 1..Len(s) : s[i] = x /\ \A j \in 1..(i-1) : s[j] # x) - 1

\* list.remove(x): drops the first element equal to x
RemoveFirst(s, x) ==
    IF x \in Range(s)
    THEN LET k == IndexOf(s, x) + 1
         IN  SubSeq(s, 1, k - 1) \o SubSeq(s, k + 1, Len(s))
    ELSE s

\* del s[i] with a 0-based index i
DeleteAt(s, i) == SubSeq(s, 1, i) \o SubSeq(s, i + 2, Len(s))

\* [x for x in s if x in keep]
RECURSIVE FilterSeq(_, _)
FilterSeq(s, keep) ==
    IF s = <<>> THEN <<>>
    ELSE (IF Head(s) \in keep THEN <<Head(s)>> ELSE <<>>) \o FilterSeq(Tail(s), keep)

(***************************************************************************)
(* Files and their tags.  A path is the song's identity; the tag reader's  *)
(* answer for a path is fixed.  Strings that are searched or compared are  *)
(* sequences of characters.                                                *)
(***************************************************************************)
AllPaths == << "a.mp3", "b.mp3", "c.mp3", "d.mp3", "e.mp3" >>

Paths == { AllPaths[i] : i \in 1..NumSongs }

PathNo(p) == CHOOSE i \in 1..Len(AllPaths) : AllPaths[i] = p

Tags(p) ==
    CASE p = "a.mp3" -> [title |-> <<"B","a">>, artist |-> <<"x">>, album |-> <<"K">>, genre |-> <<"r">>]
      [] p = "b.mp3" -> [title |-> <<"a","b">>, artist |-> <<"X">>, album |-> <<"m">>, genre |-> <<"j">>]
      [] p = "c.mp3" -> [title |-> <<"b">>,     artist |-> <<"y">>, album |-> <<"k">>, genre |-> <<"r">>]
      [] p = "d.mp3" -> [title |-> <<"A">>,     artist |-> <<"y">>, album |-> <<"m">>, genre |-> <<"j">>]
      \* a Greek title in capitals; "SIGMA" stands for the capital sigma, "sigma" and
      \* "final sigma" for its two small forms
      [] p = "e.mp3" -> [title |-> <<"O","SIGMA","A">>, artist |-> <<"y">>, album |-> <<"m">>, genre |-> <<"j">>]
      [] OTHER       -> [title |-> <<"e">>,     artist |-> <<"U">>, album |-> <<"U">>, genre |-> <<"U">>]

\* scan_music_folder: one record per supported file found, in traversal
\* order, with the play counter at 0
scan_music_folder(disk) ==
    LET RECURSIVE walk(_)
        walk(i) == IF i > Len(AllPaths) THEN <<>>
                   ELSE (IF AllPaths[i] \in disk
                         THEN << [file |-> AllPaths[i], plays |-> 0] >>
                         ELSE <<>>) \o walk(i + 1)
    IN  walk(1)

(***************************************************************************)
(* State.                                                                  *)
(***************************************************************************)
VARIABLES
    songs,               \* self.songs: list of song dicts (file, plays; tags by Tags)
    filtered_songs,      \* self.filtered_songs: list of references into songs (by file)
    sort_index,          \* self.sort_combo.currentIndex()
    grid_len,            \* number of tiles populate_song_grid last created
    current_index,       \* self.current_index
    is_shuffle,          \* self.is_shuffle
    repeat_mode,         \* self.repeat_mode: 0 off, 1 all, 2 one
    shuffle_history,     \* self.shuffle_history (membership only is ever read)
    play_queue,          \* self.play_queue
    queue_list,          \* rows of self.queue_list
    player_media,        \* the media the backend holds
    player_state,        \* backend: "idle", "playing", "paused", "ended"
    player_time,         \* backend: player.get_time() in ms, -1 without a media
    favorites,           \* self.favorites
    favorites_list,      \* rows of self.favorites_list
    recent_plays,        \* self.recent_plays
    playlists,           \* self.playlists: name -> list of paths
    current_playlist,    \* self.current_playlist
    playlist_songs_list, \* rows of self.playlist_songs_list
    settings_file,       \* content of SETTINGS_FILE
    playlists_file,      \* content of PLAYLISTS_FILE
    app,                 \* "running", "closed", "crashed" (killed), "failed" (exception)
    err,                 \* the exception that ended the session, or "none"
    calls,               \* per thread, the playback handler it is inside: the next
                         \* line to run (pc) and the local row; a handler that a
                         \* specification runs in one step is never seen inside
    last_op,             \* history variable: the handler that ran last and its input
    advances,            \* history variable: the indices played by the next_song calls
                         \* made in a row since shuffle_history was empty
    report,              \* history variable: the message box the handler that ran last
                         \* showed about the playlist store, "none" if it showed none
    fav_before           \* history variable: self.favorites before each of the
                         \* toggle_favorite calls that ran last in a row (the last
                         \* two at most), <<>> after any other handler

viewVars  == << filtered_songs, sort_index, grid_len >>
modeVars  == << is_shuffle, repeat_mode >>
queueVars == << play_queue, queue_list >>
storeVars == << favorites, favorites_list, playlists, current_playlist,
                playlist_songs_list, settings_file, playlists_file >>
appVars   == << app, err, calls >>

vars == << songs, filtered_songs, sort_index, grid_len, current_index, is_shuffle,
           repeat_mode, shuffle_history, play_queue, queue_list, player_media,
           player_state, player_time, favorites, favorites_list, recent_plays, playlists,
           current_playlist, playlist_songs_list, settings_file, playlists_file,
           app, err, calls, last_op, advances, report, fav_before >>

NoMedia == "none"

\* the Qt main thread, which runs the user's commands, and the thread of the
\* backend, which delivers MediaPlayerEndReached
Threads == { "ui", "vlc" }

\* no thread is inside a handler
NoCalls == [ t \in Threads |-> [ pc |-> "idle", row |-> -1 ] ]
NoPlaylist == "none"
Missing == << "missing" >>

Files(sgs) == { sgs[i].file : i \in 1..Len(sgs) }

\* next((s for s in self.songs if s["file"] == path), None) is not None
Resolves(sgs, path) == path \in Files(sgs)

PlaysOf(sgs, path) == sgs[CHOOSE i \in 1..Len(sgs) : sgs[i].file = path].plays

RECURSIVE TotalPlays(_)
TotalPlays(sgs) == IF sgs = <<>> THEN 0 ELSE Head(sgs).plays + TotalPlays(Tail(sgs))


(***************************************************************************)
(* Strings: str.lower(), the `in` substring test and the < of sort keys.   *)
(***************************************************************************)
UpperCase == << "A","B","C","D","E","F","G","H","I","J","K","L","M",
               "N","O","P","Q","R","S","T","U","V","W","X","Y","Z" >>
LowerCase == << "a","b","c","d","e","f","g","h","i","j","k","l","m",
               "n","o","p","q","r","s","t","u","v","w","x","y","z" >>

CharLower(c) ==
    IF \E i \in 1..Len(UpperCase) : UpperCase[i] = c
    THEN LowerCase[CHOOSE i \in 1..Len(UpperCase) : UpperCase[i] = c]
    ELSE c

\* str.lower(): letter by letter, except that a capital sigma becomes the final
\* sigma when a letter stands before it and none after it
Lower(str) ==
    [ i \in 1..Len(str) |->
        IF str[i] = "SIGMA"
        THEN IF i > 1 /\ i = Len(str) THEN "final sigma" ELSE "sigma"
        ELSE CharLower(str[i]) ]

\* code point order of the letters
Ord(c) ==
    LET points == UpperCase \o LowerCase \o << "SIGMA", "final sigma", "sigma" >>
    IN  CHOOSE i \in 1..Len(points) : points[i] = c

\* q in str
IsSubstring(q, str) ==
    \E i \in 0..(Len(str) - Len(q)) : SubSeq(str, i + 1, i + Len(q)) = q

\* a < b on strings (lexicographic)
StrLess(a, b) ==
    \E k \in 1..Len(b) :
        /\ \A j \in 1..(k - 1) : j <= Len(a) /\ a[j] = b[j]
        /\ \/ k = Len(a) + 1
           \/ k <= Len(a) /\ Ord(a[k]) < Ord(b[k])

(***************************************************************************)
(* The view: filter and sort (apply_filter, apply_sort).                   *)
(***************************************************************************)
\* the test of the list comprehension in apply_filter, text already lowered
Matches(text, p) ==
    \/ IsSubstring(text, Lower(Tags(p).artist))
    \/ IsSubstring(text, Lower(Tags(p).album))
    \/ IsSubstring(text, Lower(Tags(p).genre))
    \/ IsSubstring(text, Lower(Tags(p).title))

FilterResult(sgs, text) ==
    LET RECURSIVE pick(_)
        pick(i) == IF i > Len(sgs) THEN <<>>
                   ELSE (IF Matches(Lower(text), sgs[i].file) THEN << sgs[i].file >> ELSE <<>>)
                        \o pick(i + 1)
    IN  pick(1)

\* whether a sorts strictly before b under the key of sort_combo entry index
KeyLess(index, sgs, a, b) ==
    CASE index = 1 -> StrLess(Lower(Tags(a).title), Lower(Tags(b).title))
      [] index = 2 -> StrLess(Lower(Tags(a).artist), Lower(Tags(b).artist))
      [] index = 3 -> StrLess(Lower(Tags(a).album), Lower(Tags(b).album))
      [] index = 4 -> PlaysOf(sgs, a) > PlaysOf(sgs, b)
      [] OTHER     -> FALSE

\* list.sort(key=..., reverse=...) is stable: x goes before the first element
\* it sorts strictly before, hence after every element with an equal key
RECURSIVE InsertSortedBeforeEqual(_, _, _, _)
InsertSortedBeforeEqual(index, sgs, sorted, x) ==
    IF sorted = <<>> THEN << x >>
    ELSE IF ~KeyLess(index, sgs, Head(sorted), x)
         THEN << x >> \o sorted
         ELSE << Head(sorted) >> \o InsertSortedBeforeEqual(index, sgs, Tail(sorted), x)

RECURSIVE InsertSorted(_, _, _, _)
InsertSorted(index, sgs, sorted, x) ==
    IF sorted = <<>> THEN << x >>
    ELSE IF KeyLess(index, sgs, x, Head(sorted))
         THEN << x >> \o sorted
         ELSE << Head(sorted) >> \o InsertSorted(index, sgs, Tail(sorted), x)

RECURSIVE SortFrom(_, _, _, _)
SortFrom(index, sgs, sorted, rest) ==
    IF rest = <<>> THEN sorted
    ELSE SortFrom(index, sgs, InsertSorted(index, sgs, sorted, Head(rest)), Tail(rest))

\* the list apply_sort leaves in filtered_songs
SortResult(index, sgs, view) ==
    IF index \in 1..4 THEN SortFrom(index, sgs, <<>>, view) ELSE view

\* the searches typed into the search bar
Queries == { <<>>, <<"a">>, <<"B">>, <<"x">>, <<"r">>, <<"a","b">>, <<"z">> }

(***************************************************************************)
(* The JSON files.  A file is Missing or a sequence of tokens; json.dump   *)
(* writes the tokens in order, json.load parses them.                      *)
(***************************************************************************)
\* json.dump(self.settings, f) after save_settings stored both lists
DumpSettingsWithoutRecents(favs, recents) ==
    << "{", "favorites", "[" >> \o favs \o << "]", "}" >>

DumpSettings(favs, recents) ==
    << "{", "favorites", "[" >> \o favs \o << "]", "recent_plays", "[" >> \o recents \o << "]", "}" >>

Brackets == { "{", "}", "[", "]" }

\* the index of the "]" closing the list whose first element is at i, 0 if the
\* tokens from i on are not string elements followed by "]"
RECURSIVE ListEnd(_, _)
ListEnd(toks, i) ==
    IF i > Len(toks) THEN 0
    ELSE IF toks[i] = "]" THEN i
    ELSE IF toks[i] \in Brackets THEN 0
    ELSE ListEnd(toks, i + 1)

\* json.load of a settings file: [kind |-> "dict", favorites, recent_plays, has]
\* for an object with (some of) the two list-valued keys, [kind |-> "list"]
\* for a top-level array, [kind |-> "error"] when json.load raises
ParseSettings(toks) ==
    LET n == Len(toks)
        bad == [kind |-> "error"]
        \* parse `key [ ... ]` at i: the index after it, or 0
        after(i, key) ==
            IF i + 2 <= n /\ toks[i] = key /\ toks[i + 1] = "[" /\ ListEnd(toks, i + 2) # 0
            THEN ListEnd(toks, i + 2) + 1 ELSE 0
        items(i) == SubSeq(toks, i + 2, ListEnd(toks, i + 2) - 1)
    IN  IF n >= 2 /\ toks[1] = "[" /\ ListEnd(toks, 2) = n THEN [kind |-> "list"]
        ELSE IF n < 2 \/ toks[1] # "{" \/ toks[n] # "}" THEN bad
        ELSE IF n = 2 THEN [kind |-> "dict", has |-> {}, favorites |-> <<>>, recent_plays |-> <<>>]
        ELSE IF after(2, "favorites") = n
             THEN [kind |-> "dict", has |-> {"favorites"}, favorites |-> items(2), recent_plays |-> <<>>]
        ELSE IF after(2, "recent_plays") = n
             THEN [kind |-> "dict", has |-> {"recent_plays"}, favorites |-> <<>>, recent_plays |-> items(2)]
        ELSE IF after(2, "favorites") # 0 /\ after(after(2, "favorites"), "recent_plays") = n
             THEN [kind |-> "dict", has |-> {"favorites", "recent_plays"},
                   favorites |-> items(2), recent_plays |-> items(after(2, "favorites"))]
        ELSE bad

\* load_settings: {} when the file is missing or json.load raises
load_settings(file) ==
    IF file = Missing \/ ParseSettings(file).kind = "error"
    THEN [kind |-> "dict", has |-> {}, favorites |-> <<>>, recent_plays |-> <<>>]
    ELSE ParseSettings(file)

\* self.playlists is a dict in insertion order: a sequence of [name, songs]
PlaylistNames(pls) == { pls[i].name : i \in 1..Len(pls) }

PlaylistSongs(pls, name) == pls[CHOOSE i \in 1..Len(pls) : pls[i].name = name].songs

\* json.dump(self.playlists, f)
RECURSIVE DumpEntries(_)
DumpEntries(pls) ==
    IF pls = <<>> THEN <<>>
    ELSE << Head(pls).name, "[" >> \o Head(pls).songs \o << "]" >> \o DumpEntries(Tail(pls))

DumpPlaylists(pls) == << "{" >> \o DumpEntries(pls) \o << "}" >>

\* the entries `name [ ... ]` from token i up to the closing "}" at the end
RECURSIVE ParseEntries(_, _)
ParseEntries(toks, i) ==
    IF i = Len(toks) /\ toks[i] = "}" THEN [ok |-> TRUE, entries |-> <<>>]
    ELSE IF i + 2 <= Len(toks) /\ toks[i] \notin Brackets /\ toks[i + 1] = "["
            /\ ListEnd(toks, i + 2) # 0
         THEN LET rest == ParseEntries(toks, ListEnd(toks, i + 2) + 1)
              IN  [ok |-> rest.ok,
                   entries |-> << [name |-> toks[i],
                                   songs |-> SubSeq(toks, i + 2, ListEnd(toks, i + 2) - 1)] >>
                               \o rest.entries]
         ELSE [ok |-> FALSE, entries |-> <<>>]

ParsePlaylists(toks) ==
    IF Len(toks) >= 2 /\ toks[1] = "[" /\ ListEnd(toks, 2) = Len(toks) THEN [kind |-> "list", entries |-> <<>>]
    ELSE IF Len(toks) >= 2 /\ toks[1] = "{" /\ ParseEntries(toks, 2).ok
         THEN [kind |-> "dict", entries |-> ParseEntries(toks, 2).entries]
         ELSE [kind |-> "error", entries |-> <<>>]

\* load_playlists: {} when the file is missing or json.load raises
load_playlists(file) ==
    IF file = Missing \/ ParsePlaylists(file).kind = "error"
    THEN [kind |-> "dict", entries |-> <<>>]
    ELSE ParsePlaylists(file)

\* the rows a list widget shows for stored paths: one per path that resolves
\* (load_playlist, populate_favorites_list, update_queue_display)
DisplayRows(sgs, paths) == FilterSeq(paths, Files(sgs))

\* [s for s_path in paths for s in self.songs if s["file"] == s_path]
ResolvedSongsUnchecked(sgs, paths) == paths

ResolvedSongs(sgs, paths) == FilterSeq(paths, Files(sgs))

\* [s for s in self.songs if s["file"] in paths]
SongsAmong(sgs, paths) ==
    LET RECURSIVE pick(_)
        pick(i) == IF i > Len(sgs) THEN <<>>
                   ELSE (IF sgs[i].file \in Range(paths) THEN << sgs[i].file >> ELSE <<>>)
                        \o pick(i + 1)
    IN  pick(1)

\* self.songs.copy()
AllSongs(sgs) == [ i \in 1..Len(sgs) |-> sgs[i].file ]

(***************************************************************************)
(* Construction: MusicPlayer.__init__ on the disk and the two files.       *)
(***************************************************************************)
StartState(disk, sfile, pfile) ==
    LET sgs == scan_music_folder(disk)
        pl  == load_playlists(pfile)
        st  == load_settings(sfile)
        \* self.settings.get(...) on a list, self.playlists.keys() on a list
        bad == st.kind # "dict" \/ pl.kind # "dict"
        favs == IF st.kind = "dict" THEN st.favorites ELSE <<>>
    IN  [ songs |-> sgs,
          filtered_songs |-> AllSongs(sgs),
          sort_index |-> 0,
          grid_len |-> IF bad THEN 0 ELSE Len(sgs),
          current_index |-> -1,
          is_shuffle |-> FALSE,
          repeat_mode |-> 0,
          shuffle_history |-> {},
          play_queue |-> <<>>,
          queue_list |-> <<>>,
          player_media |-> NoMedia,
          player_state |-> "idle",
          player_time |-> -1,
          favorites |-> favs,
          favorites_list |-> IF bad THEN <<>> ELSE DisplayRows(sgs, favs),
          recent_plays |-> IF st.kind = "dict" THEN st.recent_plays ELSE <<>>,
          playlists |-> IF pl.kind = "dict" THEN pl.entries ELSE <<>>,
          current_playlist |-> NoPlaylist,
          playlist_songs_list |-> <<>>,
          settings_file |-> sfile,
          playlists_file |-> pfile,
          app |-> IF bad THEN "failed" ELSE "running",
          err |-> IF bad THEN "AttributeError" ELSE "none",
          calls |-> NoCalls ]

StateIs(s) ==
    /\ songs = s.songs
    /\ filtered_songs = s.filtered_songs
    /\ sort_index = s.sort_index
    /\ grid_len = s.grid_len
    /\ current_index = s.current_index
    /\ is_shuffle = s.is_shuffle
    /\ repeat_mode = s.repeat_mode
    /\ shuffle_history = s.shuffle_history
    /\ play_queue = s.play_queue
    /\ queue_list = s.queue_list
    /\ player_media = s.player_media
    /\ player_state = s.player_state
    /\ player_time = s.player_time
    /\ favorites = s.favorites
    /\ favorites_list = s.favorites_list
    /\ recent_plays = s.recent_plays
    /\ playlists = s.playlists
    /\ current_playlist = s.current_playlist
    /\ playlist_songs_list = s.playlist_songs_list
    /\ settings_file = s.settings_file
    /\ playlists_file = s.playlists_file
    /\ app = s.app
    /\ err = s.err
    /\ calls = s.calls

NextStateIs(s) ==
    /\ songs' = s.songs
    /\ filtered_songs' = s.filtered_songs
    /\ sort_index' = s.sort_index
    /\ grid_len' = s.grid_len
    /\ current_index' = s.current_index
    /\ is_shuffle' = s.is_shuffle
    /\ repeat_mode' = s.repeat_mode
    /\ shuffle_history' = s.shuffle_history
    /\ play_queue' = s.play_queue
    /\ queue_list' = s.queue_list
    /\ player_media' = s.player_media
    /\ player_state' = s.player_state
    /\ player_time' = s.player_time
    /\ favorites' = s.favorites
    /\ favorites_list' = s.favorites_list
    /\ recent_plays' = s.recent_plays
    /\ playlists' = s.playlists
    /\ current_playlist' = s.current_playlist
    /\ playlist_songs_list' = s.playlist_songs_list
    /\ settings_file' = s.settings_file
    /\ playlists_file' = s.playlists_file
    /\ app' = s.app
    /\ err' = s.err
    /\ calls' = s.calls

\* the files a scan can find: the whole library, or the library without its last files
Disks == { { AllPaths[i] : i \in 1..n } : n \in 0..NumSongs }

\* a first start: no settings or playlists file yet
Init ==
    /\ \E disk \in Disks : StateIs(StartState(disk, Missing, Missing))
    /\ last_op = << "init", 0 >>
    /\ advances = <<>>
    /\ report = "none"
    /\ fav_before = <<>>

(***************************************************************************)
(* play_song and add_to_recent_plays.                                      *)
(***************************************************************************)
\* length of the recent-plays list (the [:50] slice)
RecentLimit == 50

add_to_recent_plays_unbounded(recents, path) == << path >> \o RemoveFirst(recents, path)

add_to_recent_plays(recents, path) ==
    LET moved == << path >> \o RemoveFirst(recents, path)
    IN  SubSeq(moved, 1, IF Len(moved) < RecentLimit THEN Len(moved) ELSE RecentLimit)

\* song["plays"] = song.get("plays", 0) + 1 on the dict shared with self.songs
IncPlaysOfEverySong(sgs, path) ==
    [ i \in 1..Len(sgs) |-> [sgs[i] EXCEPT !.plays = @ + 1] ]

IncPlays(sgs, path) ==
    [ i \in 1..Len(sgs) |->
        IF sgs[i].file = path THEN [sgs[i] EXCEPT !.plays = @ + 1] ELSE sgs[i] ]

\* if self.is_shuffle and row not in self.shuffle_history: append(row)
MarkPlayedNever(row, sh) == sh

MarkPlayedInAnyMode(row, sh) == sh \cup { row }

MarkPlayed(row, sh) == IF is_shuffle /\ row \notin sh THEN sh \cup {row} ELSE sh

\* self.current_index when play_song returns at its range check: the row is
\* stored only after the check
IndexOnReturnStored(row, ci) == row

IndexOnReturn(row, ci) == ci

\* play_song(row), called with filtered_songs = fs, shuffle_history = sh,
\* current_index = ci and the backend in state ps
play_song(row, fs, sh, ci, ps) ==
    IF row < 0 \/ row >= Len(fs)
    THEN /\ current_index' = IndexOnReturn(row, ci)
         /\ shuffle_history' = sh
         /\ player_state' = ps
         /\ UNCHANGED << songs, recent_plays, player_media, player_time >>
    ELSE /\ TotalPlays(songs) < MaxPlays
         /\ current_index' = row
         /\ player_media' = fs[row + 1]
         /\ player_state' = "playing"
         /\ player_time' = 0
         /\ songs' = IncPlays(songs, fs[row + 1])
         /\ recent_plays' = add_to_recent_plays(recent_plays, fs[row + 1])
         /\ shuffle_history' = MarkPlayed(row, sh)

\* the part of the state play_song writes
playedVars == << songs, recent_plays, current_index, shuffle_history, player_media,
                 player_state, player_time >>

\* an exception leaves the slot: nothing the handler had not yet done happens
Raise(e) ==
    /\ app' = "failed"
    /\ err' = e
    /\ UNCHANGED calls

(***************************************************************************)
(* Playback controller.                                                    *)
(***************************************************************************)
\* double click on tile row of the grid
PlaySong(row) ==
    /\ app = "running"
    /\ play_song(row, filtered_songs, shuffle_history, current_index, player_state)
    /\ UNCHANGED << viewVars, modeVars, queueVars, storeVars, appVars >>

\* player.play() without a new media: resumes a paused track; what the backend
\* does with a track that has ended is its own choice
ResumedNever(ps) == { ps }

Resumed(ps) ==
    CASE ps = "paused" -> { "playing" }
      [] ps = "ended"  -> { "ended", "playing" }
      [] OTHER         -> { ps }

TogglePlayPause ==
    /\ app = "running"
    /\ IF player_state = "playing"
       THEN /\ player_state' = "paused"
            /\ UNCHANGED << songs, recent_plays, current_index, shuffle_history,
                                 player_media, player_time >>
       ELSE IF current_index = -1 /\ filtered_songs # <<>>
            THEN play_song(0, filtered_songs, shuffle_history, current_index, player_state)
            ELSE /\ player_state' \in Resumed(player_state)
                 /\ UNCHANGED << songs, recent_plays, current_index, shuffle_history,
                                 player_media, player_time >>
    /\ UNCHANGED << viewVars, modeVars, queueVars, storeVars, appVars >>

\* if song and song in self.filtered_songs
QueueHeadPlayableUnlessShuffle(head) ==
    Resolves(songs, head) /\ head \in Range(filtered_songs) /\ ~is_shuffle

QueueHeadPlayable(head) == Resolves(songs, head) /\ head \in Range(filtered_songs)

\* elif self.repeat_mode == 1: the sequence wraps around
WrapsInAnyRepeatMode == repeat_mode # 0

WrapsOnRepeatOne == repeat_mode = 2

Wraps == repeat_mode = 1

\* lines 856-874 of next_song: the shuffle pick, the increment or the wrap;
\* random.choice / random.randint are a choice among the candidates
sequence_keeping_history(ps) ==
    LET n        == Len(filtered_songs)
        unplayed == { i \in 0..(n - 1) : i \notin shuffle_history }
    IN  IF n = 0
        THEN player_state' = ps /\ UNCHANGED << songs, recent_plays, current_index,
                                                shuffle_history, player_media, player_time >>
        ELSE IF is_shuffle
        THEN IF unplayed # {}
             THEN \E i \in unplayed : play_song(i, filtered_songs, shuffle_history, i, ps)
             ELSE \E i \in 0..(n - 1) : play_song(i, filtered_songs, shuffle_history, i, ps)
        ELSE IF current_index < n - 1
        THEN play_song(current_index + 1, filtered_songs, shuffle_history, current_index + 1, ps)
        ELSE IF Wraps
        THEN play_song(0, filtered_songs, shuffle_history, 0, ps)
        ELSE player_state' = ps /\ UNCHANGED << songs, recent_plays, current_index,
                                                shuffle_history, player_media, player_time >>

sequence(ps) ==
    LET n        == Len(filtered_songs)
        unplayed == { i \in 0..(n - 1) : i \notin shuffle_history }
    IN  IF n = 0
        THEN player_state' = ps /\ UNCHANGED << songs, recent_plays, current_index,
                                                shuffle_history, player_media, player_time >>
        ELSE IF is_shuffle
        THEN IF unplayed # {}
             THEN \E i \in unplayed : play_song(i, filtered_songs, shuffle_history, i, ps)
             ELSE \E i \in 0..(n - 1) : play_song(i, filtered_songs, {}, i, ps)
        ELSE IF current_index < n - 1
        THEN play_song(current_index + 1, filtered_songs, shuffle_history, current_index + 1, ps)
        ELSE IF Wraps
        THEN play_song(0, filtered_songs, shuffle_history, 0, ps)
        ELSE player_state' = ps /\ UNCHANGED << songs, recent_plays, current_index,
                                                shuffle_history, player_media, player_time >>

\* the return at line 854 is inside the inner if: a head that was popped and
\* not played does not end the call, line 856 is reached as with an empty queue
fall_through_only_without_pop(popped, ps) ==
    IF popped
    THEN player_state' = ps /\ UNCHANGED << songs, recent_plays, current_index,
                                            shuffle_history, player_media, player_time >>
    ELSE sequence(ps)

fall_through(popped, ps) == sequence(ps)

\* next_song with the backend in state ps
next_song(ps) ==
    LET popped == play_queue # <<>>
        head   == Head(play_queue)
    IN  /\ play_queue' = IF popped THEN Tail(play_queue) ELSE play_queue
        /\ queue_list' = IF popped THEN DisplayRows(songs, Tail(play_queue)) ELSE queue_list
        /\ IF popped /\ QueueHeadPlayable(head)
           THEN play_song(IndexOf(filtered_songs, head), filtered_songs, shuffle_history,
                          IndexOf(filtered_songs, head), ps)
           ELSE fall_through(popped, ps)

NextSong ==
    /\ app = "running"
    /\ next_song(player_state)
    /\ UNCHANGED << viewVars, modeVars, storeVars, appVars >>

\* the positions of a track, in ms, that player.get_time() is followed through
ElapsedTimes == { 0, 3000, 3001 }

\* the backend's clock: the playing track moves on to position t
Tick(t) ==
    /\ app = "running"
    /\ player_state = "playing"
    /\ t > player_time
    /\ player_time' = t
    /\ UNCHANGED << songs, recent_plays, current_index, shuffle_history, player_media,
                    player_state, viewVars, modeVars, queueVars, storeVars, appVars >>

RestartThreshold == 3000

\* if self.player.get_time() > 3000
PlayedPastThresholdAndMore(t) == t > RestartThreshold + 1

PlayedPastThreshold(t) == t > RestartThreshold

\* prev_song: past the threshold player.set_time(0) restarts the current track
PrevSong ==
    /\ app = "running"
    /\ IF filtered_songs = <<>>
       THEN UNCHANGED playedVars
       ELSE IF PlayedPastThreshold(player_time)
       THEN /\ player_time' = 0
            /\ UNCHANGED << songs, recent_plays, current_index, shuffle_history,
                            player_media, player_state >>
       ELSE IF current_index > 0
       THEN play_song(current_index - 1, filtered_songs, shuffle_history,
                      current_index - 1, player_state)
       ELSE IF Wraps
       THEN play_song(Len(filtered_songs) - 1, filtered_songs, shuffle_history,
                      Len(filtered_songs) - 1, player_state)
       ELSE UNCHANGED playedVars
    /\ UNCHANGED << viewVars, modeVars, queueVars, storeVars, appVars >>

\* the backend's MediaPlayerEndReached: the playing track has ended
OnSongEnd ==
    /\ app = "running"
    /\ player_state = "playing"
    /\ IF repeat_mode = 2
       THEN /\ play_song(current_index, filtered_songs, shuffle_history, current_index, "ended")
            /\ UNCHANGED queueVars
       ELSE next_song("ended")
    /\ UNCHANGED << viewVars, modeVars, storeVars, appVars >>

\* A track end when MaxPlays plays have been counted: the same lines, with the
\* play counts, which are followed up to MaxPlays only, left as they are.
play_song_past_cap(row, fs, sh, ci, ps) ==
    IF row < 0 \/ row >= Len(fs)
    THEN /\ current_index' = IndexOnReturn(row, ci)
         /\ shuffle_history' = sh
         /\ player_state' = ps
         /\ UNCHANGED << songs, recent_plays, player_media, player_time >>
    ELSE /\ current_index' = row
         /\ player_media' = fs[row + 1]
         /\ player_state' = "playing"
         /\ player_time' = 0
         /\ songs' = songs
         /\ recent_plays' = add_to_recent_plays(recent_plays, fs[row + 1])
         /\ shuffle_history' = MarkPlayed(row, sh)

sequence_past_cap(ps) ==
    LET n        == Len(filtered_songs)
        unplayed == { i \in 0..(n - 1) : i \notin shuffle_history }
    IN  IF n = 0
        THEN player_state' = ps /\ UNCHANGED << songs, recent_plays, current_index,
                                                shuffle_history, player_media, player_time >>
        ELSE IF is_shuffle
        THEN IF unplayed # {}
             THEN \E i \in unplayed : play_song_past_cap(i, filtered_songs, shuffle_history, i, ps)
             ELSE \E i \in 0..(n - 1) : play_song_past_cap(i, filtered_songs, {}, i, ps)
        ELSE IF current_index < n - 1
        THEN play_song_past_cap(current_index + 1, filtered_songs, shuffle_history,
                                current_index + 1, ps)
        ELSE IF Wraps
        THEN play_song_past_cap(0, filtered_songs, shuffle_history, 0, ps)
        ELSE player_state' = ps /\ UNCHANGED << songs, recent_plays, current_index,
                                                shuffle_history, player_media, player_time >>

next_song_past_cap(ps) ==
    LET popped == play_queue # <<>>
        head   == Head(play_queue)
    IN  /\ play_queue' = IF popped THEN Tail(play_queue) ELSE play_queue
        /\ queue_list' = IF popped THEN DisplayRows(songs, Tail(play_queue)) ELSE queue_list
        /\ IF popped /\ QueueHeadPlayable(head)
           THEN play_song_past_cap(IndexOf(filtered_songs, head), filtered_songs,
                                   shuffle_history, IndexOf(filtered_songs, head), ps)
           ELSE sequence_past_cap(ps)

OnSongEndPastCap ==
    /\ app = "running"
    /\ player_state = "playing"
    /\ IF repeat_mode = 2
       THEN /\ play_song_past_cap(current_index, filtered_songs, shuffle_history,
                                  current_index, "ended")
            /\ UNCHANGED queueVars
       ELSE next_song_past_cap("ended")
    /\ UNCHANGED << viewVars, modeVars, storeVars, appVars >>

\* MediaPlayerEndReached, as often as tracks end
TrackEnd == IF TotalPlays(songs) < MaxPlays THEN OnSongEnd ELSE OnSongEndPastCap

ToggleShuffle ==
    /\ app = "running"
    /\ is_shuffle' = ~is_shuffle
    /\ shuffle_history' = IF ~is_shuffle THEN {} ELSE shuffle_history
    /\ UNCHANGED << songs, recent_plays, current_index, player_media, player_state,
                    player_time, repeat_mode, viewVars, queueVars, storeVars, appVars >>

CycleRepeat ==
    /\ app = "running"
    /\ repeat_mode' = (repeat_mode + 1) % 3
    /\ UNCHANGED << playedVars, is_shuffle, viewVars, queueVars, storeVars, appVars >>

(***************************************************************************)
(* View changes.                                                           *)
(***************************************************************************)
\* search_bar.textChanged
ApplyFilter(text) ==
    /\ app = "running"
    /\ filtered_songs' = SortResult(sort_index, songs, FilterResult(songs, text))
    /\ grid_len' = Len(filtered_songs')
    /\ UNCHANGED << sort_index, playedVars, modeVars, queueVars, storeVars, appVars >>

\* sort_combo.currentIndexChanged
ApplySort(index) ==
    /\ app = "running"
    /\ index # sort_index
    /\ sort_index' = index
    /\ filtered_songs' = SortResult(index, songs, filtered_songs)
    /\ grid_len' = Len(filtered_songs')
    /\ UNCHANGED << playedVars, modeVars, queueVars, storeVars, appVars >>

ClearSearch ==
    /\ app = "running"
    /\ filtered_songs' = AllSongs(songs)
    /\ sort_index' = 0
    /\ grid_len' = Len(filtered_songs')
    /\ UNCHANGED << playedVars, modeVars, queueVars, storeVars, appVars >>

BrowseFields == { "artist", "album", "genre" }

\* the entries populate_browse_lists shows for a field
BrowseValues(sgs, field) == { Tags(p)[field] : p \in Files(sgs) }

\* click on an entry of the artist, album or genre list
FilterBy(field, value) ==
    /\ app = "running"
    /\ filtered_songs' = SelectSeq(AllSongs(songs), LAMBDA p : Tags(p)[field] = value)
    /\ grid_len' = Len(filtered_songs')
    /\ UNCHANGED << sort_index, playedVars, modeVars, queueVars, storeVars, appVars >>

\* refresh_library (and change_music_folder) with the files now on disk
RefreshLibrary(disk) ==
    /\ app = "running"
    /\ songs' = scan_music_folder(disk)
    /\ filtered_songs' = AllSongs(songs')
    /\ grid_len' = Len(filtered_songs')
    /\ UNCHANGED << sort_index, recent_plays, current_index, shuffle_history, player_media,
                    player_state, player_time, modeVars, queueVars, storeVars, appVars >>

(***************************************************************************)
(* Queue.                                                                  *)
(***************************************************************************)
add_to_queue_in_front(index) ==
    IF index >= Len(filtered_songs)
    THEN Raise("IndexError") /\ UNCHANGED queueVars
    ELSE /\ UNCHANGED appVars
         /\ IF filtered_songs[index + 1] \notin Range(play_queue)
            THEN /\ play_queue' = << filtered_songs[index + 1] >> \o play_queue
                 /\ queue_list' = DisplayRows(songs, play_queue')
            ELSE UNCHANGED queueVars

add_to_queue(index) ==
    IF index >= Len(filtered_songs)
    THEN Raise("IndexError") /\ UNCHANGED queueVars
    ELSE /\ UNCHANGED appVars
         /\ IF filtered_songs[index + 1] \notin Range(play_queue)
            THEN /\ play_queue' = Append(play_queue, filtered_songs[index + 1])
                 /\ queue_list' = DisplayRows(songs, play_queue')
            ELSE UNCHANGED queueVars

\* context menu of tile index: Add to Queue
AddToQueue(index) ==
    /\ app = "running"
    /\ add_to_queue(index)
    /\ UNCHANGED << playedVars, viewVars, modeVars, storeVars >>

AddCurrentToQueue ==
    /\ app = "running"
    /\ IF current_index >= 0 /\ filtered_songs # <<>>
       THEN add_to_queue(current_index)
       ELSE UNCHANGED << queueVars, appVars >>
    /\ UNCHANGED << playedVars, viewVars, modeVars, storeVars >>

(***************************************************************************)
(* Settings file.                                                          *)
(***************************************************************************)
\* save_settings with self.favorites = favs: open(SETTINGS_FILE, 'w'), json.dump
save_settings(favs) == settings_file' = DumpSettings(favs, recent_plays)

\* save_timer.timeout
SaveTimer ==
    /\ app = "running"
    /\ save_settings(favorites)
    /\ UNCHANGED << playedVars, viewVars, modeVars, queueVars, favorites, favorites_list,
                    playlists, current_playlist, playlist_songs_list, playlists_file, appVars >>

closeEvent ==
    /\ app = "running"
    /\ save_settings(favorites)
    /\ app' = "closed"
    /\ UNCHANGED << playedVars, viewVars, modeVars, queueVars, favorites, favorites_list,
                    playlists, current_playlist, playlist_songs_list, playlists_file, err,
                    calls >>

\* the process is killed while save_settings runs: open(..., 'w') has emptied the
\* file and the first k tokens of json.dump's output have reached it
SaveSettingsKilled(k) ==
    /\ app = "running"
    /\ k < Len(DumpSettings(favorites, recent_plays))
    /\ settings_file' = SubSeq(DumpSettings(favorites, recent_plays), 1, k)
    /\ app' = "crashed"
    /\ UNCHANGED << playedVars, viewVars, modeVars, queueVars, favorites, favorites_list,
                    playlists, current_playlist, playlist_songs_list, playlists_file, err,
                    calls >>

(***************************************************************************)
(* Favorites.                                                              *)
(***************************************************************************)
\* the if/else of toggle_favorite on self.favorites: remove the path if it is
\* there, append it otherwise
ToggledAppendOnly(favs, file) == Append(favs, file)

Toggled(favs, file) ==
    IF file \in Range(favs) THEN RemoveFirst(favs, file) ELSE Append(favs, file)

\* favorite_btn.clicked
ToggleFavorite ==
    /\ app = "running"
    /\ IF current_index < 0 \/ filtered_songs = <<>>
       THEN UNCHANGED << favorites, favorites_list, settings_file, appVars >>
       ELSE IF current_index >= Len(filtered_songs)
       THEN Raise("IndexError") /\ UNCHANGED << favorites, favorites_list, settings_file >>
       ELSE LET file == filtered_songs[current_index + 1]
            IN  /\ favorites' = Toggled(favorites, file)
                /\ favorites_list' = DisplayRows(songs, favorites')
                /\ save_settings(favorites')
                /\ UNCHANGED appVars
    /\ UNCHANGED << playedVars, viewVars, modeVars, queueVars, playlists, current_playlist,
                    playlist_songs_list, playlists_file >>

\* context menu of tile index: Add to Favorites
AddToFavoritesByIndex(index) ==
    /\ app = "running"
    /\ IF index >= Len(filtered_songs)
       THEN Raise("IndexError") /\ UNCHANGED << favorites, favorites_list, settings_file >>
       ELSE /\ UNCHANGED appVars
            /\ IF filtered_songs[index + 1] \notin Range(favorites)
               THEN /\ favorites' = Append(favorites, filtered_songs[index + 1])
                    /\ favorites_list' = DisplayRows(songs, favorites')
                    /\ save_settings(favorites')
               ELSE UNCHANGED << favorites, favorites_list, settings_file >>
    /\ UNCHANGED << playedVars, viewVars, modeVars, queueVars, playlists, current_playlist,
                    playlist_songs_list, playlists_file >>

\* Remove on the favorites list: row is its selected row (-1: none)
RemoveFromFavorites(row) ==
    /\ app = "running"
    /\ IF row >= 0 /\ row < Len(favorites)
       THEN /\ favorites' = DeleteAt(favorites, row)
            /\ favorites_list' = DisplayRows(songs, favorites')
            /\ save_settings(favorites')
       ELSE UNCHANGED << favorites, favorites_list, settings_file >>
    /\ UNCHANGED << playedVars, viewVars, modeVars, queueVars, playlists, current_playlist,
                    playlist_songs_list, playlists_file, appVars >>

\* Clear All: reply is the answer to the question box (TRUE: Yes)
ClearFavorites(reply) ==
    /\ app = "running"
    /\ IF reply
       THEN /\ favorites' = <<>>
            /\ favorites_list' = <<>>
            /\ save_settings(favorites')
       ELSE UNCHANGED << favorites, favorites_list, settings_file >>
    /\ UNCHANGED << playedVars, viewVars, modeVars, queueVars, playlists, current_playlist,
                    playlist_songs_list, playlists_file, appVars >>

\* double click on row of the favorites list
PlayFromFavorites(row) ==
    /\ app = "running"
    /\ IF row >= 0 /\ row < Len(favorites) /\ Resolves(songs, favorites[row + 1])
       THEN /\ filtered_songs' = SongsAmong(songs, favorites)
            /\ play_song(IndexOf(filtered_songs', favorites[row + 1]), filtered_songs',
                         shuffle_history, IndexOf(filtered_songs', favorites[row + 1]), player_state)
       ELSE UNCHANGED << filtered_songs, playedVars >>
    /\ UNCHANGED << sort_index, grid_len, modeVars, queueVars, storeVars, appVars >>

(***************************************************************************)
(* Playlists: selecting one and playing from it.                           *)
(***************************************************************************)
\* click on a playlist: load_playlist
LoadPlaylist(name) ==
    /\ app = "running"
    /\ name \in PlaylistNames(playlists)
    /\ current_playlist' = name
    /\ playlist_songs_list' = DisplayRows(songs, PlaylistSongs(playlists, name))
    /\ UNCHANGED << playedVars, viewVars, modeVars, queueVars, favorites, favorites_list,
                    playlists, settings_file, playlists_file, appVars >>

\* double click on row of the playlist's song list
PlayFromPlaylist(row) ==
    /\ app = "running"
    /\ IF current_playlist = NoPlaylist
       THEN UNCHANGED << filtered_songs, playedVars, appVars >>
       ELSE LET paths == PlaylistSongs(playlists, current_playlist)
            IN  IF row >= Len(paths)
                THEN Raise("IndexError") /\ UNCHANGED << filtered_songs, playedVars >>
                ELSE /\ UNCHANGED appVars
                     /\ IF Resolves(songs, paths[row + 1])
                        THEN /\ filtered_songs' = ResolvedSongs(songs, paths)
                             /\ play_song(row, filtered_songs', shuffle_history, row, player_state)
                        ELSE UNCHANGED << filtered_songs, playedVars >>
    /\ UNCHANGED << sort_index, grid_len, modeVars, queueVars, storeVars >>

\* play_playlist_btn.clicked
PlayEntirePlaylist ==
    /\ app = "running"
    /\ IF current_playlist = NoPlaylist
       THEN UNCHANGED << filtered_songs, playedVars >>
       ELSE IF PlaylistSongs(playlists, current_playlist) = <<>>
       THEN UNCHANGED << filtered_songs, playedVars >>
       ELSE /\ filtered_songs' = ResolvedSongs(songs, PlaylistSongs(playlists, current_playlist))
            /\ play_song(0, filtered_songs', shuffle_history, 0, player_state)
    /\ UNCHANGED << sort_index, grid_len, modeVars, queueVars, storeVars, appVars >>

(***************************************************************************)
(* Playlists: the store and its file.                                      *)
(***************************************************************************)
\* save_playlists: open(PLAYLISTS_FILE, 'w'), json.dump(self.playlists)
save_playlists_as_loaded(pls) == playlists_file' = DumpPlaylists(playlists)

save_playlists(pls) == playlists_file' = DumpPlaylists(pls)

\* the names typed into the New Playlist dialog ("": the dialog was left empty)
NewNames == { "", "Gym", "Road Trip" }

\* create_playlist with the text of the dialog
CreatePlaylist(name) ==
    /\ app = "running"
    /\ IF name # "" /\ name \notin PlaylistNames(playlists)
       THEN /\ playlists' = Append(playlists, [name |-> name, songs |-> <<>>])
            /\ save_playlists(playlists')
       ELSE UNCHANGED << playlists, playlists_file >>
    /\ UNCHANGED << playedVars, viewVars, modeVars, queueVars, favorites, favorites_list,
                    current_playlist, playlist_songs_list, settings_file, appVars >>

\* the message box create_playlist shows
CreatePlaylistReport(name) ==
    IF name = "" THEN "none"
    ELSE IF name \notin PlaylistNames(playlists) THEN "Success" ELSE "Playlist already exists!"

RenamePlaylistOverExisting(old, new_name) ==
    /\ app = "running"
    /\ IF old # NoPlaylist /\ new_name # "" /\ new_name # old
       THEN /\ playlists' = Append(SelectSeq(playlists, LAMBDA p : p.name \notin { old, new_name }),
                                   [name |-> new_name, songs |-> PlaylistSongs(playlists, old)])
            /\ save_playlists(playlists')
            /\ current_playlist' = IF current_playlist = old THEN new_name ELSE current_playlist
       ELSE UNCHANGED << playlists, playlists_file, current_playlist >>
    /\ UNCHANGED << playedVars, viewVars, modeVars, queueVars, favorites, favorites_list,
                    playlist_songs_list, settings_file, appVars >>

\* the playlist the Rename button acts on is the selected row of the list (old,
\* or none); new_name is the text of the dialog, empty when it was cancelled
RenamePlaylist(old, new_name) ==
    /\ app = "running"
    /\ IF old # NoPlaylist /\ new_name # "" /\ new_name # old
          /\ new_name \notin PlaylistNames(playlists)
       THEN /\ playlists' = Append(SelectSeq(playlists, LAMBDA p : p.name # old),
                                   [name |-> new_name, songs |-> PlaylistSongs(playlists, old)])
            /\ save_playlists(playlists')
            /\ current_playlist' = IF current_playlist = old THEN new_name ELSE current_playlist
       ELSE UNCHANGED << playlists, playlists_file, current_playlist >>
    /\ UNCHANGED << playedVars, viewVars, modeVars, queueVars, favorites, favorites_list,
                    playlist_songs_list, settings_file, appVars >>

\* the message box rename_playlist shows
RenameReport(old, new_name) ==
    IF old = NoPlaylist THEN "Please select a playlist first!"
    ELSE IF new_name = "" \/ new_name = old THEN "none"
    ELSE IF new_name \notin PlaylistNames(playlists) THEN "Success"
    ELSE "A playlist with that name already exists!"

\* Delete on the selected row of the list of playlists (item, or none); reply is
\* the answer to the question box (TRUE: Yes)
DeletePlaylist(item, reply) ==
    /\ app = "running"
    /\ IF item # NoPlaylist /\ reply
       THEN /\ playlists' = SelectSeq(playlists, LAMBDA p : p.name # item)
            /\ save_playlists(playlists')
            /\ playlist_songs_list' = <<>>
            /\ current_playlist' = IF current_playlist = item THEN NoPlaylist
                                   ELSE current_playlist
       ELSE UNCHANGED << playlists, playlists_file, playlist_songs_list, current_playlist >>
    /\ UNCHANGED << playedVars, viewVars, modeVars, queueVars, favorites, favorites_list,
                    settings_file, appVars >>

\* the message box delete_playlist shows
DeleteReport(item) == IF item = NoPlaylist THEN "Please select a playlist first!" ELSE "none"

\* del self.playlists[name][idx]
DeleteSong(pls, name, idx) ==
    [ i \in 1..Len(pls) |->
        IF pls[i].name = name THEN [pls[i] EXCEPT !.songs = DeleteAt(@, idx)] ELSE pls[i] ]

\* Remove on the open playlist: row is the selected row of the list of its
\* songs (-1: none), item the selected row of the list of playlists (none after
\* that list was filled again), which the handler opens afresh
RemoveFromPlaylist(row, item) ==
    /\ app = "running"
    /\ IF current_playlist = NoPlaylist \/ row < 0
       THEN UNCHANGED << playlists, playlists_file, current_playlist, playlist_songs_list,
                         appVars >>
       ELSE IF row >= Len(PlaylistSongs(playlists, current_playlist))
       THEN /\ Raise("IndexError")
            /\ UNCHANGED << playlists, playlists_file, current_playlist, playlist_songs_list >>
       ELSE /\ playlists' = DeleteSong(playlists, current_playlist, row)
            /\ save_playlists(playlists')
            /\ IF item = NoPlaylist
               THEN Raise("AttributeError") /\ UNCHANGED << current_playlist, playlist_songs_list >>
               ELSE /\ current_playlist' = item
                    /\ playlist_songs_list' = DisplayRows(songs, PlaylistSongs(playlists', item))
                    /\ UNCHANGED appVars
    /\ UNCHANGED << playedVars, viewVars, modeVars, queueVars, favorites, favorites_list,
                    settings_file >>

\* a name as a number: 0 for no name, the position of the playlist that has
\* it, or one past the last playlist for a name no playlist has
NameRow(name) ==
    IF name = "" \/ name = NoPlaylist THEN 0
    ELSE IF name \in PlaylistNames(playlists)
    THEN CHOOSE i \in 1..Len(playlists) : playlists[i].name = name
    ELSE Len(playlists) + 1

\* self.playlists[name].append(path)
AppendSong(pls, name, path) ==
    [ i \in 1..Len(pls) |->
        IF pls[i].name = name THEN [pls[i] EXCEPT !.songs = Append(@, path)] ELSE pls[i] ]

\* context menu of tile index: Add to Playlist > name
QuickAddToPlaylist(name, index) ==
    /\ app = "running"
    /\ name \in PlaylistNames(playlists)
    /\ IF index >= Len(filtered_songs)
       THEN Raise("IndexError") /\ UNCHANGED << playlists, playlists_file >>
       ELSE /\ UNCHANGED appVars
            /\ IF filtered_songs[index + 1] \notin Range(PlaylistSongs(playlists, name))
               THEN /\ playlists' = AppendSong(playlists, name, filtered_songs[index + 1])
                    /\ save_playlists(playlists')
               ELSE UNCHANGED << playlists, playlists_file >>
    /\ UNCHANGED << playedVars, viewVars, modeVars, queueVars, favorites, favorites_list,
                    current_playlist, playlist_songs_list, settings_file >>

\* the message box quick_add_to_playlist shows
QuickAddReport(name, index) ==
    IF index < Len(filtered_songs)
       /\ filtered_songs[index + 1] \notin Range(PlaylistSongs(playlists, name))
    THEN "Success" ELSE "none"

(***************************************************************************)
(* Restart after the session ended.                                        *)
(***************************************************************************)
Restart(disk) ==
    /\ app # "running"
    /\ NextStateIs(StartState(disk, settings_file, playlists_file))

(***************************************************************************)
(* The handlers as steps of the session, with the history variables.       *)
(***************************************************************************)
Op(name, arg) ==
    /\ last_op' = << name, arg >>
    /\ advances' = <<>>
    /\ report' = "none"
    /\ fav_before' = <<>>

PlaySongStep == \E row \in 0..(grid_len - 1) : Op("play_song", row) /\ PlaySong(row)

TogglePlayPauseStep == Op("toggle_play_pause", 0) /\ TogglePlayPause

\* the number of the path a handler takes off the head of the queue, 0 if none
Popped == IF play_queue # <<>> THEN PathNo(Head(play_queue)) ELSE 0

\* a run starts with a next_song call made under shuffle with an empty queue and
\* an empty history, and goes on while such calls follow each other
NextSongStep ==
    /\ last_op' = << "next_song", Popped >>
    /\ NextSong
    /\ advances' = IF is_shuffle /\ play_queue = <<>> /\ filtered_songs # <<>>
                   THEN IF advances # <<>> THEN Append(advances, current_index')
                        ELSE IF shuffle_history = {} THEN << current_index' >>
                        ELSE <<>>
                   ELSE <<>>
    /\ report' = "none"
    /\ fav_before' = <<>>

PrevSongStep == Op("prev_song", player_time) /\ PrevSong

TickStep == \E t \in ElapsedTimes : Op("tick", 0) /\ Tick(t)

OnSongEndStep == Op("on_song_end", IF repeat_mode = 2 THEN 0 ELSE Popped) /\ OnSongEnd

ToggleShuffleStep == Op("toggle_shuffle", 0) /\ ToggleShuffle

CycleRepeatStep == Op("cycle_repeat", 0) /\ CycleRepeat

AddToQueueStep == \E index \in 0..(grid_len - 1) : Op("add_to_queue", index) /\ AddToQueue(index)

AddCurrentToQueueStep == Op("add_current_to_queue", 0) /\ AddCurrentToQueue

ApplyFilterStep == \E text \in Queries : Op("apply_filter", 0) /\ ApplyFilter(text)

\* textChanged of the search box, the text kept with the call
SearchStep ==
    \E text \in Queries \cup { << "SIGMA" >>, << "O", "SIGMA" >> } :
        /\ last_op' = << "apply_filter", 0, text >>
        /\ advances' = <<>>
        /\ report' = "none"
        /\ fav_before' = <<>>
        /\ ApplyFilter(text)

ApplySortStep == \E index \in 0..4 : Op("apply_sort", index) /\ ApplySort(index)

ClearSearchStep == Op("clear_search", 0) /\ ClearSearch

FilterByStep ==
    \E field \in BrowseFields : \E value \in BrowseValues(songs, field) :
        Op("filter_by", 0) /\ FilterBy(field, value)

RefreshLibraryStep == \E disk \in Disks : Op("refresh_library", Cardinality(disk)) /\ RefreshLibrary(disk)

ToggleFavoriteStep ==
    /\ last_op' = << "toggle_favorite", 0 >>
    /\ advances' = <<>>
    /\ report' = "none"
    /\ fav_before' = IF fav_before = <<>> THEN << favorites >>
                      ELSE << fav_before[Len(fav_before)], favorites >>
    /\ ToggleFavorite

AddToFavoritesByIndexStep ==
    \E index \in 0..(grid_len - 1) :
        Op("add_to_favorites_by_index", index) /\ AddToFavoritesByIndex(index)

PlayFromFavoritesStep ==
    \E row \in 0..(Len(favorites_list) - 1) : Op("play_from_favorites", row) /\ PlayFromFavorites(row)

LoadPlaylistStep == \E name \in PlaylistNames(playlists) : Op("load_playlist", 0) /\ LoadPlaylist(name)

PlayFromPlaylistStep ==
    \E row \in 0..(Len(playlist_songs_list) - 1) : Op("play_from_playlist", row) /\ PlayFromPlaylist(row)

PlayEntirePlaylistStep == Op("play_entire_playlist", 0) /\ PlayEntirePlaylist

\* a step of a handler of the playlist store, with the message box it showed
OpReport(name, arg, box) ==
    /\ last_op' = << name, arg >>
    /\ advances' = <<>>
    /\ report' = box
    /\ fav_before' = <<>>

CreatePlaylistStep ==
    \E name \in NewNames :
        OpReport("create_playlist", NameRow(name), CreatePlaylistReport(name))
            /\ CreatePlaylist(name)

RemoveFromPlaylistStep ==
    \E row \in -1..(Len(playlist_songs_list) - 1) :
        \E item \in PlaylistNames(playlists) \cup { NoPlaylist } :
            Op("remove_from_playlist", row) /\ RemoveFromPlaylist(row, item)

RenamePlaylistStep ==
    \E old \in PlaylistNames(playlists) \cup { NoPlaylist } : \E new_name \in NewNames :
        /\ last_op' = << "rename_playlist", NameRow(old), NameRow(new_name) >>
        /\ advances' = <<>>
        /\ report' = RenameReport(old, new_name)
        /\ fav_before' = <<>>
        /\ RenamePlaylist(old, new_name)

QuickAddToPlaylistStep ==
    \E name \in PlaylistNames(playlists) : \E index \in 0..(grid_len - 1) :
        OpReport("quick_add_to_playlist", index, QuickAddReport(name, index))
            /\ QuickAddToPlaylist(name, index)

DeletePlaylistStep ==
    \E item \in PlaylistNames(playlists) \cup { NoPlaylist } : \E reply \in BOOLEAN :
        OpReport("delete_playlist", NameRow(item), DeleteReport(item))
            /\ DeletePlaylist(item, reply)

RemoveFromFavoritesStep ==
    \E row \in -1..(Len(favorites_list) - 1) :
        Op("remove_from_favorites", row) /\ RemoveFromFavorites(row)

ClearFavoritesStep ==
    \E reply \in BOOLEAN : Op("clear_favorites", IF reply THEN 1 ELSE 0) /\ ClearFavorites(reply)

SaveTimerStep == Op("save_timer", 0) /\ SaveTimer

CloseStep == Op("closeEvent", 0) /\ closeEvent

SaveSettingsKilledStep ==
    \E k \in 0..Len(DumpSettings(favorites, recent_plays)) : Op("killed", k) /\ SaveSettingsKilled(k)

RestartStep == \E disk \in Disks : Op("init", 0) /\ Restart(disk)

\* the next start finds the library as the last scan found it
ReopenStep == Op("init", 0) /\ Restart(Files(songs))

(***************************************************************************)
(* The playback controller on the view of the whole library: transport     *)
(* buttons, the queue and the backend's end-of-track event.                *)
(***************************************************************************)
Next ==
    \/ PlaySongStep
    \/ TogglePlayPauseStep
    \/ NextSongStep
    \/ PrevSongStep
    \/ TickStep
    \/ OnSongEndStep
    \/ ToggleShuffleStep
    \/ CycleRepeatStep
    \/ AddToQueueStep
    \/ AddCurrentToQueueStep

Spec == Init /\ [][Next]_vars

(***************************************************************************)
(* The queue against a view that a search narrows or empties.              *)
(***************************************************************************)
QueueDisk == { "a.mp3", "b.mp3" }

InitQueue ==
    /\ StateIs(StartState(QueueDisk, Missing, Missing))
    /\ last_op = << "init", 0 >>
    /\ advances = <<>>
    /\ report = "none"
    /\ fav_before = <<>>

RescanStep ==
    \E disk \in { d \in Disks : d \subseteq QueueDisk } :
        Op("refresh_library", Cardinality(disk)) /\ RefreshLibrary(disk)

NextQueue ==
    \/ PlaySongStep
    \/ NextSongStep
    \/ PrevSongStep
    \/ OnSongEndStep
    \/ ToggleShuffleStep
    \/ CycleRepeatStep
    \/ AddToQueueStep
    \/ ApplyFilterStep
    \/ RescanStep

SpecQueue == InitQueue /\ [][NextQueue]_vars

(***************************************************************************)
(* Sessions that start with a playlist saved earlier, on any library.      *)
(***************************************************************************)
SavedPlaylists == << [name |-> "Road Trip", songs |-> << "c.mp3", "a.mp3" >>] >>

InitView ==
    /\ \E disk \in Disks : StateIs(StartState(disk, Missing, DumpPlaylists(SavedPlaylists)))
    /\ last_op = << "init", 0 >>
    /\ advances = <<>>
    /\ report = "none"
    /\ fav_before = <<>>

\* the view derived from the catalog: search, sort, browse, rescan
NextView ==
    \/ PlaySongStep
    \/ ApplyFilterStep
    \/ ApplySortStep
    \/ ClearSearchStep
    \/ FilterByStep
    \/ RefreshLibraryStep

SpecView == InitView /\ [][NextView]_vars

\* sequencing (shuffle, repeat, track end) while the search changes the view
NextAdvance ==
    \/ PlaySongStep
    \/ NextSongStep
    \/ OnSongEndStep
    \/ ToggleShuffleStep
    \/ CycleRepeatStep
    \/ ApplyFilterStep
    \/ ClearSearchStep

SpecAdvance == InitView /\ [][NextAdvance]_vars

\* the handlers that index the view with current_index while the search changes it
NextStale ==
    \/ PlaySongStep
    \/ ApplyFilterStep
    \/ ClearSearchStep
    \/ ToggleFavoriteStep
    \/ AddCurrentToQueueStep

SpecStale == InitView /\ [][NextStale]_vars

(***************************************************************************)
(* The settings file over sessions: what a start can find on disk, saves   *)
(* by the timer, on close and after a change, a kill during a save, and    *)
(* the next start.                                                         *)
(***************************************************************************)
SettingsFilesAtStart ==
    { Missing,
      DumpSettings(<< "a.mp3" >>, << "b.mp3", "a.mp3" >>),
      << "{", "favorites", "[", "a.mp3" >>,
      << "[", "]" >> }

InitPersist ==
    /\ \E sfile \in SettingsFilesAtStart : StateIs(StartState(Paths, sfile, Missing))
    /\ last_op = << "init", 0 >>
    /\ advances = <<>>
    /\ report = "none"
    /\ fav_before = <<>>

NextPersist ==
    \/ PlaySongStep
    \/ ToggleFavoriteStep
    \/ SaveTimerStep
    \/ CloseStep
    \/ SaveSettingsKilledStep
    \/ RestartStep

SpecPersist == InitPersist /\ [][NextPersist]_vars

\* the library tab next to the playlists and favorites tabs: a playlist or the
\* favorites become the view while the grid still shows the tiles of the search
ShelfSettings == DumpSettings(<< "c.mp3", "b.mp3" >>, <<>>)

InitShelf ==
    /\ \E disk \in Disks :
          StateIs(StartState(disk, ShelfSettings, DumpPlaylists(SavedPlaylists)))
    /\ last_op = << "init", 0 >>
    /\ advances = <<>>
    /\ report = "none"
    /\ fav_before = <<>>

NextShelf ==
    \/ PlaySongStep
    \/ ApplyFilterStep
    \/ RefreshLibraryStep
    \/ LoadPlaylistStep
    \/ PlayFromPlaylistStep
    \/ PlayEntirePlaylistStep
    \/ PlayFromFavoritesStep

SpecShelf == InitShelf /\ [][NextShelf]_vars

(***************************************************************************)
(* The stores over sessions: favorites and playlists are changed, saved,   *)
(* and read back by the next start.  The first session finds the files an  *)
(* earlier session wrote, or none.                                         *)
(***************************************************************************)
SavedSettings == DumpSettings(<< "a.mp3" >>, << "b.mp3", "a.mp3" >>)

\* a library of two files; the saved playlist names a third one
StoreDisk == { "a.mp3", "b.mp3" }

InitStore ==
    /\ \E sfile \in { Missing, SavedSettings } :
          \E pfile \in { Missing, DumpPlaylists(SavedPlaylists) } :
              StateIs(StartState(StoreDisk, sfile, pfile))
    /\ last_op = << "init", 0 >>
    /\ advances = <<>>
    /\ report = "none"
    /\ fav_before = <<>>

NextStore ==
    \/ PlaySongStep
    \/ ToggleFavoriteStep
    \/ AddToFavoritesByIndexStep
    \/ CreatePlaylistStep
    \/ QuickAddToPlaylistStep
    \/ SaveTimerStep
    \/ CloseStep
    \/ ReopenStep

SpecStore == InitStore /\ [][NextStore]_vars

(***************************************************************************)
(* Playlist names: create, rename, and the playlist that is open.          *)
(***************************************************************************)
NextNames ==
    \/ CreatePlaylistStep
    \/ RenamePlaylistStep
    \/ LoadPlaylistStep
    \/ QuickAddToPlaylistStep

SpecNames == InitStore /\ [][NextNames]_vars

(***************************************************************************)
(* Removing from a playlist some of whose files are not in the library.    *)
(***************************************************************************)
NextRemove ==
    \/ LoadPlaylistStep
    \/ RemoveFromPlaylistStep
    \/ QuickAddToPlaylistStep
    \/ RefreshLibraryStep

SpecRemove == InitView /\ [][NextRemove]_vars

(***************************************************************************)
(* Every handler that changes a playlist or the favorites, with the file   *)
(* it saves to.                                                            *)
(***************************************************************************)
\* a library of one file; the settings and the playlists an earlier session
\* saved name this file and files that are gone
WriteDisk == { "a.mp3" }

InitWrite ==
    /\ StateIs(StartState(WriteDisk, SavedSettings, DumpPlaylists(SavedPlaylists)))
    /\ last_op = << "init", 0 >>
    /\ advances = <<>>
    /\ report = "none"
    /\ fav_before = <<>>

NextWrite ==
    \/ PlaySongStep
    \/ ToggleFavoriteStep
    \/ AddToFavoritesByIndexStep
    \/ RemoveFromFavoritesStep
    \/ ClearFavoritesStep
    \/ CreatePlaylistStep
    \/ RenamePlaylistStep
    \/ DeletePlaylistStep
    \/ LoadPlaylistStep
    \/ QuickAddToPlaylistStep
    \/ RemoveFromPlaylistStep

SpecWrite == InitWrite /\ [][NextWrite]_vars

(***************************************************************************)
(* Playback left to itself: the user starts a song and sets the repeat     *)
(* mode, and the tracks end one after the other for as long as one plays.  *)
(***************************************************************************)
TrackEndStep == Op("on_song_end", IF repeat_mode = 2 THEN 0 ELSE Popped) /\ TrackEnd

NextRepeat ==
    \/ PlaySongStep
    \/ CycleRepeatStep
    \/ TrackEndStep

\* a playing track ends: the backend announces every end
SpecRepeat == InitView /\ [][NextRepeat]_vars /\ WF_vars(TrackEndStep)

(***************************************************************************)
(* Properties.                                                             *)
(***************************************************************************)
\* the program's own state: everything but the history variables
progVars == << songs, filtered_songs, sort_index, grid_len, current_index, is_shuffle,
               repeat_mode, shuffle_history, play_queue, queue_list, player_media,
               player_state, player_time, favorites, favorites_list, recent_plays, playlists,
               current_playlist, playlist_songs_list, settings_file, playlists_file,
               app, err, calls >>

\* this step loaded and started the song at index i of the view it leaves,
\* counted the play and made i the current index
PlayedIndex(i) ==
    /\ i >= 0 /\ i < Len(filtered_songs')
    /\ current_index' = i
    /\ player_media' = filtered_songs'[i + 1]
    /\ player_state' = "playing"
    /\ Resolves(songs, filtered_songs'[i + 1])
    /\ PlaysOf(songs', filtered_songs'[i + 1]) = PlaysOf(songs, filtered_songs'[i + 1]) + 1

\* this step is a call of next_song: the Next button, or a track end outside repeat-one
NextSongCalled ==
    \/ last_op'[1] = "next_song"
    \/ last_op'[1] = "on_song_end" /\ repeat_mode # 2

\* C1: with shuffle on, an empty queue and an empty shuffle history at the first
\* call, the first N indices played by next_song calls made in a row on a view
\* of N songs are pairwise distinct; only a later call may repeat one.
C1_ShuffleNoRepeat ==
    \A i, j \in 1..Len(advances) :
        (i <= Len(filtered_songs) /\ j <= Len(filtered_songs) /\ advances[i] = advances[j])
            => i = j

\* a full round: N calls in a row on the whole library
C1_Witness ==
    /\ is_shuffle
    /\ Len(filtered_songs) = NumSongs
    /\ Len(advances) = NumSongs
    /\ Range(advances) = 0..(NumSongs - 1)

\* C2: a next_song call made with a non-empty queue takes the head off the
\* queue, and plays that song if it is in the view, whatever the shuffle flag
\* and the repeat mode.
C2_QueuePrecedence ==
    [][ (NextSongCalled /\ play_queue # <<>>) =>
            /\ play_queue' = Tail(play_queue)
            /\ Head(play_queue) \in Range(filtered_songs) =>
                   PlayedIndex(IndexOf(filtered_songs, Head(play_queue))) ]_vars

\* next_song took b.mp3 off the queue and played it with shuffle on and repeat-one
C2_Witness ==
    /\ last_op = << "next_song", 2 >>
    /\ is_shuffle
    /\ repeat_mode = 2
    /\ player_media = "b.mp3"
    /\ player_state = "playing"
    /\ current_index = 1

\* C4: next_song with shuffle off and an empty queue plays current_index + 1
\* when that is in the view; at the last index it plays index 0 if the repeat
\* mode is "all" and otherwise changes nothing.
C4_SequentialAdvance ==
    [][ (last_op'[1] = "next_song" /\ ~is_shuffle /\ play_queue = <<>> /\ filtered_songs # <<>>) =>
            /\ current_index + 1 < Len(filtered_songs) => PlayedIndex(current_index + 1)
            /\ (current_index = Len(filtered_songs) - 1 /\ repeat_mode = 1) => PlayedIndex(0)
            /\ (current_index = Len(filtered_songs) - 1 /\ repeat_mode # 1) => UNCHANGED progVars ]_vars

\* next_song wrapped from the last index of the library to index 0 under repeat-all
C4_Witness ==
    /\ last_op = << "next_song", 0 >>
    /\ ~is_shuffle
    /\ repeat_mode = 1
    /\ Len(filtered_songs) = NumSongs
    /\ current_index = 0
    /\ player_media = filtered_songs[1]
    /\ Len(recent_plays) >= 2
    /\ recent_plays[2] = filtered_songs[NumSongs]

\* C3: with repeat mode "one", the track-end handler replays the index that
\* just ended: current_index is unchanged and the song at it is started again.
C3_RepeatOneReplays ==
    [][ (last_op'[1] = "on_song_end" /\ repeat_mode = 2) =>
            (current_index' = current_index /\ PlayedIndex(current_index)) ]_vars

\* C5: no handler raises an error in any reachable state.
C5_NoHandlerRaises == err = "none"

\* C6: current_index is -1 or an index into the view.
C6_CurrentIndexInView ==
    current_index = -1 \/ (current_index >= 0 /\ current_index < Len(filtered_songs))

\* C7: a rescan keeps the play count of every path that was in the catalog and
\* still is.
C7_RescanKeepsPlayCounts ==
    [][ last_op'[1] = "refresh_library" =>
            \A p \in Files(songs) \cap Files(songs') : PlaysOf(songs', p) = PlaysOf(songs, p) ]_vars

\* C8: a handler that changes the view clears the shuffle history: afterwards it
\* holds no index recorded against the previous view (at most the index of the
\* song the handler itself started).
C8_HistoryClearedOnViewChange ==
    [][ filtered_songs' # filtered_songs => shuffle_history' \subseteq { current_index' } ]_vars

\* the settings file is there and json.load raises on it
SettingsFileMalformed ==
    settings_file # Missing /\ ParseSettings(settings_file).kind = "error"

\* C9: while the session runs on the defaults a failed load left, a save that no
\* user action asked for (the auto-save timer, the save on close) leaves the
\* settings file as it found it.
C9_FailedLoadKeepsFile ==
    [][ (app = "running" /\ SettingsFileMalformed /\ last_op'[1] \in { "save_timer", "closeEvent" })
            => settings_file' = settings_file ]_vars

\* C10: a kill during save_settings leaves the settings file with its complete
\* previous content or the complete new content.
C10_AtomicSave ==
    [][ last_op'[1] = "killed" =>
            settings_file' \in { settings_file, DumpSettings(favorites, recent_plays) } ]_vars

\* this step ran save_settings to its end
SettingsSaved ==
    \/ last_op'[1] \in { "save_timer", "closeEvent" }
    \/ last_op'[1] \in { "toggle_favorite", "add_to_favorites_by_index" } /\ favorites' # favorites

\* this step ran save_playlists to its end
PlaylistsSaved ==
    last_op'[1] \in { "create_playlist", "quick_add_to_playlist" } /\ playlists' # playlists

\* C11: what a completed save wrote loads back as the favorites, the recent
\* plays and the playlists (names and ordered paths) held in memory, and the
\* start after a closed session holds the values the session held at its end.
C11_SaveLoadRoundTrip ==
    [][ /\ SettingsSaved =>
               /\ load_settings(settings_file').favorites = favorites'
               /\ load_settings(settings_file').recent_plays = recent_plays'
        /\ PlaylistsSaved => load_playlists(playlists_file').entries = playlists'
        /\ (last_op'[1] = "init" /\ app = "closed") =>
               /\ favorites' = favorites
               /\ recent_plays' = recent_plays
               /\ playlists' = playlists ]_vars

\* a start that read back two favorites, two recent plays and two playlists,
\* one of them with two songs
C11_Witness ==
    /\ last_op[1] = "init"
    /\ app = "running"
    /\ Len(favorites) >= 2
    /\ Len(recent_plays) >= 2
    /\ Len(playlists) = 2
    /\ \E i \in 1..2 : playlists[i].name = "Gym" /\ Len(playlists[i].songs) = 2

\* C12: whatever a start finds in the settings and playlists files, it completes
\* without an error, and a file that is missing or is not a JSON object of the
\* expected shape gives the empty defaults.
C12_LoadNeverBlocksStartup ==
    last_op[1] = "init" =>
        /\ app = "running"
        /\ err = "none"
        /\ (settings_file = Missing \/ ParseSettings(settings_file).kind # "dict") =>
               (favorites = <<>> /\ recent_plays = <<>>)
        /\ (playlists_file = Missing \/ ParsePlaylists(playlists_file).kind # "dict") =>
               playlists = <<>>

\* C13: every song of the view is a song of the catalog.
C13_ViewWithinCatalog == Range(filtered_songs) \subseteq Files(songs)

\* the view made from a playlist that names a file the catalog does not have
C13_Witness ==
    /\ last_op[1] = "play_entire_playlist"
    /\ current_playlist = "Road Trip"
    /\ "c.mp3" \notin Files(songs)
    /\ filtered_songs = << "a.mp3" >>
    /\ player_media = "a.mp3"

\* C17: play_song with an index outside the view (negative, or at or past its
\* length, so any index on an empty view) changes nothing: current_index, the
\* play counts, recent_plays, shuffle_history, the queue and the backend (no
\* load, no play) are as before.
C17_PlayOutsideViewIsNoOp ==
    [][ (last_op'[1] = "play_song"
           /\ (last_op'[2] < 0 \/ last_op'[2] >= Len(filtered_songs))) =>
            UNCHANGED progVars ]_vars

\* a tile of the grid past the end of the playlist that became the view was
\* double-clicked while a song of the playlist plays
C17_Witness ==
    /\ last_op[1] = "play_song"
    /\ last_op[2] >= Len(filtered_songs)
    /\ filtered_songs # <<>>
    /\ current_index < Len(filtered_songs)
    /\ current_index >= 0
    /\ player_state = "playing"
    /\ player_media = filtered_songs[current_index + 1]

\* C14: adding to a playlist a path it already holds leaves the playlist (length
\* and order) as it was and is reported as AlreadyPresent, not as an error.
C14_PlaylistAddIdempotent ==
    [][ (last_op'[1] = "quick_add_to_playlist" /\ last_op'[2] < Len(filtered_songs)) =>
            /\ \A i \in 1..Len(playlists) :
                   filtered_songs[last_op'[2] + 1] \in Range(playlists[i].songs) =>
                       playlists'[i] = playlists[i]
            /\ playlists' = playlists => (err' = "none" /\ report' = "AlreadyPresent") ]_vars

\* C15: two toggle_favorite calls in a row (same view, same current song) leave
\* the set of favorite paths as it was before the first, and favorites never
\* holds a path twice.
C15_ToggleInvolution ==
    /\ NoDup(favorites)
    /\ (Len(fav_before) = 2 /\ err = "none") => Range(favorites) = Range(fav_before[1])

\* a.mp3 was taken out of the favorites and put back by the second toggle
C15_Witness ==
    /\ last_op[1] = "toggle_favorite"
    /\ fav_before = << << "a.mp3", "b.mp3" >>, << "b.mp3" >> >>
    /\ favorites = << "b.mp3", "a.mp3" >>
    /\ settings_file = DumpSettings(favorites, recent_plays)

\* C16: play_song(i) with i inside the view makes i the current index, adds one
\* to the play count of the song at view index i and changes no other song's
\* count, puts that song's path at the head of recent_plays and, with shuffle
\* on, makes i a member of shuffle_history.
C16_SuccessfulPlay ==
    [][ (last_op'[1] = "play_song" /\ last_op'[2] >= 0 /\ last_op'[2] < Len(filtered_songs)) =>
            LET i    == last_op'[2]
                path == filtered_songs[i + 1]
            IN  /\ current_index' = i
                /\ Len(songs') = Len(songs)
                /\ \A k \in 1..Len(songs) :
                       /\ songs'[k].file = songs[k].file
                       /\ songs'[k].plays =
                              IF songs[k].file = path THEN songs[k].plays + 1 ELSE songs[k].plays
                /\ Cardinality({ k \in 1..Len(songs) : songs'[k].plays # songs[k].plays }) = 1
                /\ recent_plays' # <<>> /\ Head(recent_plays') = path
                /\ is_shuffle => i \in shuffle_history'
                /\ player_media' = path /\ player_state' = "playing" ]_vars

\* with shuffle on, the second song of a three-song view was played after
\* another one: it leads recent_plays and is in the shuffle history
C16_Witness ==
    /\ last_op = << "play_song", 1 >>
    /\ is_shuffle
    /\ Len(filtered_songs) = 3
    /\ current_index = 1
    /\ 1 \in shuffle_history
    /\ Len(recent_plays) = 2
    /\ Head(recent_plays) = filtered_songs[2]
    /\ PlaysOf(songs, filtered_songs[2]) = 1
    /\ PlaysOf(songs, recent_plays[2]) = 1
    /\ TotalPlays(songs) = 2

\* C18: next_song, prev_song and on_song_end called while the view is empty
\* leave current_index, play_queue, shuffle_history, the play counts and
\* recent_plays unchanged.
C18_EmptyViewNoOp ==
    [][ (last_op'[1] \in { "next_song", "prev_song", "on_song_end" } /\ filtered_songs = <<>>) =>
            UNCHANGED << current_index, play_queue, shuffle_history, songs, recent_plays >> ]_vars

\* this step played nothing: no index, count, recent play, history entry or
\* media changed
NothingPlayed ==
    UNCHANGED << songs, recent_plays, current_index, shuffle_history, player_media, player_time >>

\* this step is what next_song does with an empty queue: nothing on an empty
\* view; with shuffle on an index outside the history (any index, on a history
\* started afresh, when none is left); with shuffle off the next index, index
\* 0 past the end under repeat-all, and nothing past the end otherwise
SequencedNormally ==
    LET n        == Len(filtered_songs)
        unplayed == { i \in 0..(n - 1) : i \notin shuffle_history }
    IN  IF n = 0 THEN NothingPlayed
        ELSE IF is_shuffle
        THEN /\ PlayedIndex(current_index')
             /\ unplayed # {} => current_index' \in unplayed
             /\ shuffle_history' =
                    (IF unplayed # {} THEN shuffle_history ELSE {}) \cup { current_index' }
        ELSE IF current_index + 1 < n THEN PlayedIndex(current_index + 1) /\ UNCHANGED shuffle_history
        ELSE IF repeat_mode = 1 THEN PlayedIndex(0) /\ UNCHANGED shuffle_history
        ELSE NothingPlayed

\* C19: when the head popped from the queue is not a song of the current view,
\* next_song plays nothing for it and, in the same call, does what it does
\* with an empty queue: the shuffle pick, or the index increment / repeat-all
\* wrap.
C19_UnresolvableHeadFallsThrough ==
    [][ (NextSongCalled /\ (play_queue = <<>> \/ Head(play_queue) \notin Range(filtered_songs))) =>
            /\ SequencedNormally
            /\ play_queue # <<>> =>
                   /\ play_queue' = Tail(play_queue)
                   /\ player_media' # player_media => player_media' # Head(play_queue)
                   /\ \A k \in 1..Len(songs) :
                          songs[k].file = Head(play_queue) => songs'[k] = songs[k] ]_vars

\* with shuffle on, next_song took b.mp3 off the queue while the search showed
\* only a.mp3, and played a.mp3 in the same call
C19_Witness ==
    /\ last_op = << "next_song", PathNo("b.mp3") >>
    /\ is_shuffle
    /\ filtered_songs = << "a.mp3" >>
    /\ Resolves(songs, "b.mp3")
    /\ play_queue = <<>>
    /\ current_index = 0
    /\ player_media = "a.mp3"
    /\ player_state = "playing"
    /\ PlaysOf(songs, "a.mp3") = 1
    /\ TotalPlays(songs) = 1

\* C20: prev_song on a non-empty view with the backend more than 3 seconds into
\* the track seeks to position 0 and changes nothing else: current_index, the
\* play counts, recent_plays, shuffle_history and the loaded media are as before.
C20_RestartPastThreshold ==
    [][ (last_op'[1] = "prev_song" /\ filtered_songs # <<>> /\ player_time > 3000) =>
            /\ player_time' = 0
            /\ UNCHANGED << songs, filtered_songs, sort_index, grid_len, current_index,
                            is_shuffle, repeat_mode, shuffle_history, play_queue, queue_list,
                            player_media, player_state, favorites, favorites_list,
                            recent_plays, playlists, current_playlist, playlist_songs_list,
                            settings_file, playlists_file, app, err >> ]_vars

\* the second song of the view was 3001 ms in when prev_song was called: it is
\* still the current song, back at position 0, and it was played once
C20_Witness ==
    /\ last_op = << "prev_song", 3001 >>
    /\ player_time = 0
    /\ Len(filtered_songs) >= 2
    /\ current_index = 1
    /\ player_media = filtered_songs[2]
    /\ player_state = "playing"
    /\ recent_plays = << filtered_songs[2] >>
    /\ TotalPlays(songs) = 1

(***************************************************************************)
(* Searching and sorting the library.                                      *)
(***************************************************************************)
InitSearch ==
    /\ \E disk \in SUBSET { "a.mp3", "b.mp3", "e.mp3" } :
           StateIs(StartState(disk, Missing, Missing))
    /\ last_op = << "init", 0 >>
    /\ advances = <<>>
    /\ report = "none"
    /\ fav_before = <<>>

NextSearch ==
    \/ SearchStep
    \/ ApplySortStep
    \/ RefreshLibraryStep

SpecSearch == InitSearch /\ [][NextSearch]_vars

(***************************************************************************)
(* Going back in a view that a search has narrowed.                        *)
(***************************************************************************)
NextRetreat ==
    \/ PlaySongStep
    \/ PrevSongStep
    \/ TickStep
    \/ CycleRepeatStep
    \/ ApplyFilterStep

SpecRetreat == InitView /\ [][NextRetreat]_vars

\* C21: prev_song with the backend not more than 3 seconds into the track plays
\* current_index - 1 when current_index > 0; at the start it plays the last
\* index of the view if the repeat mode is "all" and otherwise changes nothing.
C21_RetreatSequencing ==
    [][ (last_op'[1] = "prev_song" /\ filtered_songs # <<>> /\ player_time <= 3000) =>
            /\ current_index > 0 => PlayedIndex(current_index - 1)
            /\ (current_index <= 0 /\ repeat_mode = 1) => PlayedIndex(Len(filtered_songs) - 1)
            /\ (current_index <= 0 /\ repeat_mode # 1) => UNCHANGED progVars ]_vars

(***************************************************************************)
(* add_to_recent_plays on lists as long as its limit.                      *)
(***************************************************************************)
\* the file name of the i-th song of a large library
RecentPath(i) == ToString(i) \o ".mp3"

\* recent_plays as the session that played songs 1..n in that order, starting
\* from an empty list, saved it
SavedRecents(n) == [ i \in 1..n |-> RecentPath(n - i + 1) ]

InitRecents ==
    /\ \E n \in 0..RecentLimit :
           StateIs(StartState({}, DumpSettings(<<>>, SavedRecents(n)), Missing))
    /\ last_op = << "init", 0 >>
    /\ advances = <<>>
    /\ report = "none"
    /\ fav_before = <<>>

\* self.add_to_recent_plays(song["file"]) for the song numbered i: the oldest,
\* one in the middle, the newest saved, and two never played before
AddToRecentPlaysStep ==
    \E i \in { 1, RecentLimit \div 2, RecentLimit, RecentLimit + 1, RecentLimit + 2 } :
        /\ Op("add_to_recent_plays", i)
        /\ app = "running"
        /\ recent_plays' = add_to_recent_plays(recent_plays, RecentPath(i))
        /\ UNCHANGED << songs, current_index, shuffle_history, player_media, player_state,
                        player_time, viewVars, modeVars, queueVars, storeVars, appVars >>

SpecRecents == InitRecents /\ [][AddToRecentPlaysStep]_vars

\* C22: starting from an empty list, after any sequence of plays recent_plays
\* has at most 50 entries and no path twice, and its first entry is the path
\* played last; playing a path that is already in the list moves it to the
\* front, the length and the order of the other entries staying as they were.
C22_RecentPlaysInvariant ==
    /\ [](Len(recent_plays) <= 50 /\ NoDup(recent_plays))
    /\ [][ last_op'[1] = "add_to_recent_plays" =>
             LET path == RecentPath(last_op'[2])
             IN  /\ Head(recent_plays') = path
                 /\ path \in Range(recent_plays) =>
                        /\ Len(recent_plays') = Len(recent_plays)
                        /\ Tail(recent_plays') = RemoveFirst(recent_plays, path)
                 /\ path \notin Range(recent_plays) =>
                        \A k \in 2..Len(recent_plays') : recent_plays'[k] = recent_plays[k - 1] ]_vars

\* a 51st path was played on a full list: it leads the list, which still has
\* 50 entries and has lost its oldest one
C22_Witness ==
    /\ last_op = << "add_to_recent_plays", 51 >>
    /\ Len(recent_plays) = 50
    /\ Head(recent_plays) = "51.mp3"
    /\ recent_plays[50] = "2.mp3"
    /\ "1.mp3" \notin Range(recent_plays)

\* C23: toggle_play_pause pauses a playing track (current_index unchanged);
\* resumes a paused track, the same song and no new play recorded; with no
\* current song and a non-empty view it plays index 0; with no current song and
\* an empty view it leaves the controller idle.
C23_TogglePlayPause ==
    [][ last_op'[1] = "toggle_play_pause" =>
            /\ player_state = "playing" =>
                   /\ player_state' = "paused"
                   /\ UNCHANGED << songs, recent_plays, current_index, shuffle_history,
                                   player_media, player_time, filtered_songs, play_queue >>
            /\ player_state = "paused" =>
                   /\ player_state' = "playing"
                   /\ UNCHANGED << songs, recent_plays, current_index, shuffle_history,
                                   player_media, player_time, filtered_songs, play_queue >>
            /\ (player_state = "idle" /\ current_index = -1 /\ filtered_songs # <<>>) =>
                   PlayedIndex(0)
            /\ (player_state = "idle" /\ filtered_songs = <<>>) =>
                   UNCHANGED progVars ]_vars

\* the second song was paused three seconds in
C23_Witness ==
    /\ last_op[1] = "toggle_play_pause"
    /\ player_state = "paused"
    /\ current_index = 1
    /\ player_media = filtered_songs[2]
    /\ player_time = 3000
    /\ TotalPlays(songs) = 1

\* C24: toggle_shuffle empties shuffle_history when it turns shuffle on and
\* leaves it as it is when it turns shuffle off; while shuffle is off, play_song
\* and next_song add nothing to the history, and the index next_song selects
\* is the queue head's, the next one or the wrap, whatever the history holds.
C24_ShuffleToggle ==
    [][ /\ last_op'[1] = "toggle_shuffle" =>
               /\ is_shuffle' = ~is_shuffle
               /\ shuffle_history' = IF is_shuffle' THEN {} ELSE shuffle_history
        /\ (~is_shuffle /\ (last_op'[1] = "play_song" \/ NextSongCalled)) =>
               shuffle_history' = shuffle_history
        /\ (~is_shuffle /\ NextSongCalled) =>
               LET n == Len(filtered_songs)
               IN  current_index' =
                       IF play_queue # <<>> /\ Head(play_queue) \in Range(filtered_songs)
                       THEN IndexOf(filtered_songs, Head(play_queue))
                       ELSE IF n > 0 /\ current_index + 1 < n THEN current_index + 1
                       ELSE IF n > 0 /\ repeat_mode = 1 THEN 0
                       ELSE current_index ]_vars

\* shuffle was turned off with indices 1 and 2 in the history; next_song went
\* from index 1 to index 2 although only index 0 was unplayed
C24_Witness ==
    /\ last_op[1] = "next_song"
    /\ ~is_shuffle
    /\ shuffle_history = { 1, 2 }
    /\ Len(filtered_songs) = 3
    /\ current_index = 2
    /\ recent_plays = << filtered_songs[3], filtered_songs[2] >>

\* the two message boxes that say the name is taken
DuplicateName == { "Playlist already exists!", "A playlist with that name already exists!" }

\* this step is create_playlist with the name of an existing playlist
CreatesExisting ==
    last_op'[1] = "create_playlist" /\ last_op'[2] \in 1..Len(playlists)

\* this step is rename_playlist of a selected playlist to the name playlist
\* number k has
RenamesTo(k) ==
    last_op'[1] = "rename_playlist" /\ last_op'[2] \in 1..Len(playlists) /\ last_op'[3] = k

\* this step moved the selected playlist to a name no playlist had: the old
\* name is gone, the paths are the same in the same order, the other playlists
\* are as before, and the open playlist follows
Renamed ==
    LET old == playlists[last_op'[2]]
        new == playlists'[Len(playlists')]
    IN  /\ report' = "Success"
        /\ Len(playlists') = Len(playlists)
        /\ old.name \notin PlaylistNames(playlists')
        /\ new.name \notin PlaylistNames(playlists)
        /\ new.songs = old.songs
        /\ \A p \in Range(playlists) : p.name # old.name => p \in Range(playlists')
        /\ current_playlist' = IF current_playlist = old.name THEN new.name ELSE current_playlist

\* C25 as stated: create with an existing name, and rename to any name that
\* already exists, fail with DuplicateName and leave the playlist store
\* unchanged; a successful rename removes the old name and maps the new name to
\* the same paths in the same order, and the open playlist follows.
C25_NameUniqueness ==
    [][ /\ (CreatesExisting \/ \E k \in 1..Len(playlists) : RenamesTo(k)) =>
               /\ report' \in DuplicateName
               /\ UNCHANGED << playlists, playlists_file, current_playlist >>
        /\ RenamesTo(Len(playlists) + 1) => Renamed ]_vars

\* C25, amended: as stated for a rename to the name of another playlist; a
\* rename of a playlist to the name it has changes nothing and says nothing.
C25_NameUniquenessOfOthers ==
    [][ /\ (CreatesExisting \/ \E k \in 1..Len(playlists) : k # last_op'[2] /\ RenamesTo(k)) =>
               /\ report' \in DuplicateName
               /\ UNCHANGED << playlists, playlists_file, current_playlist >>
        /\ (\E k \in 1..Len(playlists) : k = last_op'[2] /\ RenamesTo(k)) =>
               /\ report' = "none"
               /\ UNCHANGED << playlists, playlists_file, current_playlist >>
        /\ RenamesTo(Len(playlists) + 1) => Renamed ]_vars

\* the open playlist "Road Trip" was renamed to "Gym": same two paths, in order
C25_Witness ==
    /\ last_op[1] = "rename_playlist"
    /\ report = "Success"
    /\ playlists = << [name |-> "Gym", songs |-> << "c.mp3", "a.mp3" >>] >>
    /\ current_playlist = "Gym"
    /\ playlists_file = DumpPlaylists(playlists)

\* C26: a path stored in a playlist or in the favorites that does not resolve
\* to a song of the catalog stays where it is stored across load, rescan and
\* save; only a remove, delete or clear that the user aims at it takes it out.
\* The list of a playlist's songs shows resolved songs only, so the Remove of
\* a row of that list is never aimed at an unresolved path.
C26_UnresolvedRetained ==
    [][ /\ \A i \in 1..Len(playlists) : \A path \in Range(playlists[i].songs) :
               ~Resolves(songs, path) =>
                   \E j \in 1..Len(playlists') :
                       /\ playlists'[j].name = playlists[i].name
                       /\ path \in Range(playlists'[j].songs)
        /\ \A path \in Range(favorites) :
               ~Resolves(songs, path) => path \in Range(favorites') ]_vars

\* C27: the queue is first in, first out: add_to_queue puts a path behind the
\* paths already queued (a path that is queued keeps its place), every
\* next_song call on a non-empty queue takes exactly the entry at the front,
\* and no other playback command changes the queue.
C27_QueueFifo ==
    [][ /\ (last_op'[1] \in { "add_to_queue", "add_current_to_queue" } /\ err' = "none") =>
               \/ play_queue' = play_queue
               \/ /\ Len(play_queue') = Len(play_queue) + 1
                  /\ SubSeq(play_queue', 1, Len(play_queue)) = play_queue
                  /\ play_queue'[Len(play_queue')] \notin Range(play_queue)
        /\ last_op'[1] = "add_to_queue" =>
               (last_op'[2] < Len(filtered_songs) => filtered_songs[last_op'[2] + 1] \in Range(play_queue'))
        /\ NextSongCalled =>
               play_queue' = IF play_queue = <<>> THEN <<>> ELSE Tail(play_queue)
        /\ (~NextSongCalled /\ last_op'[1] \notin { "add_to_queue", "add_current_to_queue" }) =>
               play_queue' = play_queue ]_vars

\* c.mp3 was queued before a.mp3; next_song took c.mp3 and a.mp3 is now first
C27_Witness ==
    /\ last_op = << "next_song", PathNo("c.mp3") >>
    /\ player_media = "c.mp3"
    /\ play_queue = << "a.mp3" >>
    /\ recent_plays = << "c.mp3" >>

\* c and d are the same letter, in the same or in the other case
SameLetter(c, d) ==
    \/ c = d
    \/ \E n \in 1..Len(UpperCase) : { c, d } = { UpperCase[n], LowerCase[n] }
    \/ { c, d } \subseteq { "SIGMA", "sigma", "final sigma" }

\* q occurs in field when case is ignored
OccursIgnoringCase(q, field) ==
    \E i \in 0..(Len(field) - Len(q)) : \A k \in 1..Len(q) : SameLetter(q[k], field[i + k])

\* C28: after apply_filter(q) the view holds a song of the catalog if and only
\* if q, case ignored, is a substring of the song's title, artist, album or
\* genre; the empty query gives the whole catalog. No song is in the view twice.
C28_FilterCorrect ==
    [][ last_op'[1] = "apply_filter" =>
            LET q == last_op'[3]
            IN  /\ \A i \in 1..Len(songs) :
                       songs[i].file \in Range(filtered_songs') <=>
                           \E field \in { "title", "artist", "album", "genre" } :
                               OccursIgnoringCase(q, Tags(songs[i].file)[field])
                /\ Range(filtered_songs') \subseteq Files(songs)
                /\ NoDup(filtered_songs')
                /\ q = <<>> => Len(filtered_songs') = Len(songs) ]_vars

\* the 0-based place of path in the list s
PlaceIn(s, path) == IndexOf(s, path)

\* C29: apply_sort with the key title, artist, album or most played leaves a
\* permutation of the view it found, in the order of the key (no song stands
\* before one whose key sorts strictly first), and two songs that compare
\* equal under the key stand in the order they had before.
C29_SortStable ==
    [][ (last_op'[1] = "apply_sort" /\ last_op'[2] \in 1..4) =>
            LET key == last_op'[2]
                n   == Len(filtered_songs')
            IN  /\ n = Len(filtered_songs)
                /\ Range(filtered_songs') = Range(filtered_songs)
                /\ NoDup(filtered_songs')
                /\ \A i, j \in 1..n :
                       i < j =>
                           /\ ~KeyLess(key, songs, filtered_songs'[j], filtered_songs'[i])
                           /\ ~KeyLess(key, songs, filtered_songs'[i], filtered_songs'[j]) =>
                                  PlaceIn(filtered_songs, filtered_songs'[i])
                                      < PlaceIn(filtered_songs, filtered_songs'[j]) ]_vars

\* sorted by artist after a sort by title: b.mp3 (artist X) stays before a.mp3
\* (artist x), the order the title sort had left them in, and c.mp3 (y) is last
C29_Witness ==
    /\ last_op = << "apply_sort", 2 >>
    /\ sort_index = 2
    /\ filtered_songs = << "b.mp3", "a.mp3", "c.mp3" >>
    /\ AllSongs(songs) = << "a.mp3", "b.mp3", "c.mp3" >>

\* C30: apply_sort with the default key leaves the view in the order of the
\* catalog (the order of the scan), also when the view had been sorted by
\* title, artist, album or most played just before.
C30_DefaultSortIsScanOrder ==
    [][ last_op' = << "apply_sort", 0 >> =>
            /\ Range(filtered_songs') = Range(filtered_songs)
            /\ \A i, j \in 1..Len(filtered_songs') :
                   i < j => PlaceIn(AllSongs(songs), filtered_songs'[i])
                                < PlaceIn(AllSongs(songs), filtered_songs'[j]) ]_vars

(***************************************************************************)
(* The playback handlers line by line, on the two threads that run them:   *)
(* the Qt main thread runs the user's commands, and the backend calls      *)
(* on_song_end, attached with event_attach, on its own event thread.       *)
(***************************************************************************)
\* thread t moves to line pc of its handler with the local row
Goto(t, pc, row) == calls' = [calls EXCEPT ![t] = [ pc |-> pc, row |-> row ]]

Return(t) == Goto(t, "idle", -1)

\* the play_song calls that have passed the range check and not yet counted the play
InFlight == Cardinality({ t \in Threads : calls[t].pc \in { "load", "count" } })

\* an exception in a slot of the main thread ends the session; one in a callback
\* of the backend's thread is printed and the callback is over
RaiseIn(t, e) ==
    IF t = "ui"
    THEN app' = "failed" /\ err' = e /\ UNCHANGED calls
    ELSE Return(t) /\ UNCHANGED << app, err >>

\* the next line of the handler thread t is inside
Line(t) ==
    LET pc  == calls[t].pc
        row == calls[t].row
        n   == Len(filtered_songs)
    IN  /\ app = "running"
        /\ pc # "idle"
        /\ UNCHANGED << viewVars, modeVars, storeVars >>
        /\ CASE pc = "on_song_end" ->
                  \* if self.repeat_mode == 2
                  /\ Goto(t, IF repeat_mode = 2 THEN "call" ELSE "next_song", -1)
                  /\ UNCHANGED << playedVars, queueVars, app, err >>
             [] pc = "next_song" ->
                  \* if self.play_queue
                  /\ Goto(t, IF play_queue # <<>> THEN "pop" ELSE "sequence", -1)
                  /\ UNCHANGED << playedVars, queueVars, app, err >>
             [] pc = "pop" ->
                  \* self.play_queue.pop(0) and the lookup of the popped file
                  IF play_queue = <<>>
                  THEN RaiseIn(t, "IndexError") /\ UNCHANGED << playedVars, queueVars >>
                  ELSE /\ play_queue' = Tail(play_queue)
                       /\ queue_list' = DisplayRows(songs, Tail(play_queue))
                       /\ IF QueueHeadPlayable(Head(play_queue))
                          THEN Goto(t, "store_index", IndexOf(filtered_songs, Head(play_queue)))
                          ELSE Goto(t, "sequence", -1)
                       /\ UNCHANGED << playedVars, app, err >>
             [] pc = "store_index" ->
                  \* self.current_index = self.filtered_songs.index(song)
                  /\ current_index' = row
                  /\ Goto(t, "call", -1)
                  /\ UNCHANGED << songs, recent_plays, shuffle_history, player_media,
                                  player_state, player_time, queueVars, app, err >>
             [] pc = "sequence" ->
                  \* lines 856-872
                  /\ IF n = 0
                     THEN Return(t) /\ UNCHANGED << current_index, shuffle_history >>
                     ELSE IF is_shuffle
                     THEN LET unplayed == { i \in 0..(n - 1) : i \notin shuffle_history }
                          IN  /\ IF unplayed # {}
                                 THEN current_index' \in unplayed /\ UNCHANGED shuffle_history
                                 ELSE current_index' \in 0..(n - 1) /\ shuffle_history' = {}
                              /\ Goto(t, "call", -1)
                     ELSE IF current_index < n - 1
                     THEN /\ current_index' = current_index + 1
                          /\ Goto(t, "call", -1)
                          /\ UNCHANGED shuffle_history
                     ELSE IF Wraps
                     THEN /\ current_index' = 0
                          /\ Goto(t, "call", -1)
                          /\ UNCHANGED shuffle_history
                     ELSE Return(t) /\ UNCHANGED << current_index, shuffle_history >>
                  /\ UNCHANGED << songs, recent_plays, player_media, player_state,
                                  player_time, queueVars, app, err >>
             [] pc = "call" ->
                  \* self.play_song(self.current_index): the argument is read now
                  /\ Goto(t, "play_song", current_index)
                  /\ UNCHANGED << playedVars, queueVars, app, err >>
             [] pc = "play_song" ->
                  \* the range check and self.current_index = row
                  /\ IF row < 0 \/ row >= n
                     THEN Return(t) /\ UNCHANGED current_index
                     ELSE /\ TotalPlays(songs) + InFlight < MaxPlays
                          /\ current_index' = row
                          /\ Goto(t, "load", row)
                  /\ UNCHANGED << songs, recent_plays, shuffle_history, player_media,
                                  player_state, player_time, queueVars, app, err >>
             [] pc = "load" ->
                  \* song = self.filtered_songs[row], set_media, play
                  /\ player_media' = filtered_songs[row + 1]
                  /\ player_state' = "playing"
                  /\ player_time' = 0
                  /\ Goto(t, "count", row)
                  /\ UNCHANGED << songs, recent_plays, current_index, shuffle_history,
                                  queueVars, app, err >>
             [] pc = "count" ->
                  \* song["plays"] += 1, add_to_recent_plays, shuffle_history.append
                  /\ songs' = IncPlays(songs, filtered_songs[row + 1])
                  /\ recent_plays' = add_to_recent_plays(recent_plays, filtered_songs[row + 1])
                  /\ shuffle_history' = MarkPlayed(row, shuffle_history)
                  /\ Return(t)
                  /\ UNCHANGED << current_index, player_media, player_state, player_time,
                                  queueVars, app, err >>

\* the main thread takes the next event off its queue only when the slot before
\* has returned: a double click on tile row
UiPlaySong(row) ==
    /\ app = "running"
    /\ calls["ui"].pc = "idle"
    /\ Goto("ui", "play_song", row)
    /\ UNCHANGED << playedVars, viewVars, modeVars, queueVars, storeVars, app, err >>

\* the next button
UiNextSong ==
    /\ app = "running"
    /\ calls["ui"].pc = "idle"
    /\ Goto("ui", "next_song", -1)
    /\ UNCHANGED << playedVars, viewVars, modeVars, queueVars, storeVars, app, err >>

\* MediaPlayerEndReached: the backend's thread calls on_song_end, one event at a time
EndReached ==
    /\ app = "running"
    /\ calls["vlc"].pc = "idle"
    /\ player_state = "playing"
    /\ player_state' = "ended"
    /\ Goto("vlc", "on_song_end", -1)
    /\ UNCHANGED << songs, recent_plays, current_index, shuffle_history, player_media,
                    player_time, viewVars, modeVars, queueVars, storeVars, app, err >>

UiPlaySongStep == \E row \in 0..(grid_len - 1) : Op("play_song", row) /\ UiPlaySong(row)

UiNextSongStep == Op("next_song", Popped) /\ UiNextSong

EndReachedStep == Op("on_song_end", 0) /\ EndReached

UiLineStep == Op("line", 1) /\ Line("ui")

VlcLineStep == Op("line", 2) /\ Line("vlc")

\* the short slots of the main thread, between two of its events
UiAddToQueueStep == calls["ui"].pc = "idle" /\ AddToQueueStep

UiCycleRepeatStep == calls["ui"].pc = "idle" /\ CycleRepeatStep

NextThreads ==
    \/ UiPlaySongStep
    \/ UiNextSongStep
    \/ UiAddToQueueStep
    \/ UiCycleRepeatStep
    \/ EndReachedStep
    \/ UiLineStep
    \/ VlcLineStep

SpecThreads == InitQueue /\ [][NextThreads]_vars

\* C31: on_song_end never runs interleaved with a command of the user (the two
\* threads are never inside a playback handler at the same time), and whenever
\* no handler is running, current_index names the song that was last loaded
\* into the backend.
C31_SingleWriter ==
    /\ ~(calls["ui"].pc # "idle" /\ calls["vlc"].pc # "idle")
    /\ (app = "running" /\ calls = NoCalls /\ player_media # NoMedia) =>
           /\ current_index \in 0..(Len(filtered_songs) - 1)
           /\ filtered_songs[current_index + 1] = player_media

\* C32: toggle_favorite toggles the favorite membership of the song most
\* recently started by play_song (the one the backend holds) and of no other
\* song, also when the view has been filtered or sorted since it started.
C32_ToggleActsOnPlaying ==
    [][ (last_op'[1] = "toggle_favorite" /\ player_media # NoMedia) =>
            /\ (player_media \in Range(favorites')) # (player_media \in Range(favorites))
            /\ \A p \in Paths \ { player_media } :
                   (p \in Range(favorites')) = (p \in Range(favorites)) ]_vars

\* C33: remove_from_playlist with row i of the list of the open playlist's
\* songs selected takes exactly one entry out of the stored playlist, the path
\* of the song shown at row i, and changes no other playlist, also when the
\* stored list holds paths that do not resolve and are not shown.
C33_RemoveTargetsSelected ==
    [][ (last_op'[1] = "remove_from_playlist" /\ last_op'[2] >= 0
             /\ current_playlist # NoPlaylist) =>
            LET shown  == playlist_songs_list[last_op'[2] + 1]
                stored == PlaylistSongs(playlists, current_playlist)
            IN  /\ PlaylistNames(playlists') = PlaylistNames(playlists)
                /\ \E k \in 1..Len(stored) :
                       /\ stored[k] = shown
                       /\ PlaylistSongs(playlists', current_playlist) = DeleteAt(stored, k - 1)
                /\ \A name \in PlaylistNames(playlists) \ { current_playlist } :
                       PlaylistSongs(playlists', name) = PlaylistSongs(playlists, name) ]_vars

\* C34: every handler that has changed a playlist leaves a playlists file whose
\* content, read back, is the playlists in memory, and every handler that has
\* changed the favorites leaves a settings file whose favorites are the
\* favorites in memory.
C34_WriteThrough ==
    [][ /\ playlists' # playlists =>
               load_playlists(playlists_file') = [ kind |-> "dict", entries |-> playlists' ]
        /\ favorites' # favorites =>
               /\ load_settings(settings_file').kind = "dict"
               /\ load_settings(settings_file').favorites = favorites' ]_vars

\* the only favorite has been removed and a playlist changed before, and both
\* files hold what is in memory
C34_Witness ==
    /\ last_op = << "remove_from_favorites", 0 >>
    /\ favorites = <<>>
    /\ load_settings(settings_file).favorites = <<>>
    /\ playlists = << [name |-> "Road Trip", songs |-> << "a.mp3" >>] >>
    /\ load_playlists(playlists_file).entries = playlists

\* every index of the view is in shuffle_history
RoundOver == \A i \in 0..(Len(filtered_songs) - 1) : i \in shuffle_history

\* this next_song call plays the head of the queue
PlaysQueueHead == play_queue # <<>> /\ QueueHeadPlayable(Head(play_queue))

Started(i) ==
    /\ current_index' = i
    /\ player_media' = filtered_songs[i + 1]
    /\ player_state' = "playing"
    /\ recent_plays'[1] = filtered_songs[i + 1]

\* C36: with shuffle off, an empty queue and a fixed view of N > 0 songs, a
\* track end under repeat-all starts the song at the next index, the first
\* after the last, so that, once a song plays and the mode stays repeat-all,
\* with every playing track ending in its time, playback goes on for ever and
\* every index of the view is started by a track end again and again; a track
\* end under repeat-off at the last index starts nothing, and the backend is
\* left ended.
C36_RepeatAllLiveness ==
    /\ [][ (last_op'[1] = "on_song_end" /\ ~is_shuffle /\ play_queue = <<>>
                /\ current_index \in 0..(Len(filtered_songs) - 1)) =>
               /\ repeat_mode = 1 =>
                      Started((current_index + 1) % Len(filtered_songs))
               /\ (repeat_mode = 0 /\ current_index = Len(filtered_songs) - 1) =>
                      /\ player_state' = "ended"
                      /\ UNCHANGED << songs, recent_plays, current_index, player_media >> ]_vars
    /\ \A i \in 0..(NumSongs - 1) :
           []( (player_state = "playing" /\ i < Len(filtered_songs) /\ [](repeat_mode = 1))
                   => /\ [](player_state = "playing")
                      /\ []<>(current_index = i /\ last_op[1] = "on_song_end") )

\* the track end at the last of three songs under repeat-all has started the first
C36_Witness ==
    /\ last_op[1] = "on_song_end"
    /\ repeat_mode = 1
    /\ Len(filtered_songs) = NumSongs
    /\ current_index = 0
    /\ player_state = "playing"
    /\ player_media = filtered_songs[1]
    /\ TotalPlays(songs) = MaxPlays

=============================================================================
